---- MODULE Spec2Model ----
(***************************************************************************)
(* Model of the YAMS daemon IPC client of vscode-blackboard:               *)
(*   - frame codec and FrameReader        (src/src/extension.ts 442-648)   *)
(*   - SocketConnection                   (src/src/daemon/socket.ts)       *)
(*   - YamsDaemonClient                   (src/src/extension.ts 650-1113)  *)
(* Bytes are naturals 0..255, buffers are sequences of bytes.              *)
(***************************************************************************)
EXTENDS Integers, Sequences, FiniteSets, TLC

\* ------------------------------------------------------------------------
\* Bounds of the model
\* ------------------------------------------------------------------------
MaxRequests == 2
MaxSockets == 2
MaxChunks == 1
MaxBuffer == 46

\* ------------------------------------------------------------------------
\* Program constants
\* ------------------------------------------------------------------------
MAGIC == 1497451859
VERSION == 1
HEADER_SIZE == 20
MAX_FRAME_SIZE == 16777216
FLAG_CHUNKED == 1
FLAG_LAST_CHUNK == 2
FLAG_ERROR == 4
RequestTimeoutMs == 30000
ReconnectBaseMs == 500
ReconnectMaxMs == 30000
Infinity == 1000000000

\* ------------------------------------------------------------------------
\* Unsigned 32-bit values.  A u32 is kept as its two 16-bit halves
\* [hi, lo] (value hi * 65536 + lo), so that every u32 of the program,
\* checksums included, is representable.
\* ------------------------------------------------------------------------
RECURSIVE BitXor(_, _)
BitXor(a, b) ==
    IF a = 0 THEN b
    ELSE IF b = 0 THEN a
    ELSE (((a % 2) + (b % 2)) % 2) + 2 * BitXor(a \div 2, b \div 2)

RECURSIVE BitAnd(_, _)
BitAnd(a, b) ==
    IF a = 0 \/ b = 0 THEN 0
    ELSE ((a % 2) * (b % 2)) + 2 * BitAnd(a \div 2, b \div 2)

\* a number below 2^31 as a u32
U32(n) == [hi |-> n \div 65536, lo |-> n % 65536]
\* a u32 below 2^31 as a number
U32ToNat(v) == (v.hi * 65536) + v.lo
U32Gt(a, b) == (a.hi > b.hi) \/ (a.hi = b.hi /\ a.lo > b.lo)
\* a ^ b on bytes, tabulated
XorTable == [a \in 0..255 |-> [b \in 0..255 |-> BitXor(a, b)]]
Xor16(a, b) ==
    (XorTable[a \div 256][b \div 256] * 256) + XorTable[a % 256][b % 256]
U32Xor(a, b) == [hi |-> Xor16(a.hi, b.hi), lo |-> Xor16(a.lo, b.lo)]
U32And(a, b) == [hi |-> BitAnd(a.hi, b.hi), lo |-> BitAnd(a.lo, b.lo)]
\* v >>> k for k in 1..16
U32Shr(v, k) ==
    LET p == 2 ^ k
        q == 2 ^ (16 - k)
    IN  [hi |-> v.hi \div p, lo |-> (v.lo \div p) + ((v.hi % p) * q)]

\* Buffer.writeUInt32BE
writeUInt32BE(v) ==
    << v.hi \div 256, v.hi % 256, v.lo \div 256, v.lo % 256 >>

\* Buffer.readUInt32BE(offset), offset counted from 0
readUInt32BE(buf, off) ==
    [hi |-> (buf[off + 1] * 256) + buf[off + 2],
     lo |-> (buf[off + 3] * 256) + buf[off + 4]]

\* Buffer.subarray(from, to), 0-based, end exclusive
subarray(buf, from, to) ==
    IF from >= to THEN << >> ELSE SubSeq(buf, from + 1, to)

\* ------------------------------------------------------------------------
\* crc32: CRC-32/ISO-HDLC as computed by CRC32.buf of the crc-32 package,
\* converted to unsigned (reflected polynomial 0xEDB88320)
\* ------------------------------------------------------------------------
CrcPoly == [hi |-> 60856, lo |-> 33568]
AllOnes == [hi |-> 65535, lo |-> 65535]

RECURSIVE CrcEntry(_, _)
CrcEntry(c, k) ==
    IF k = 0 THEN c
    ELSE CrcEntry(IF c.lo % 2 = 1 THEN U32Xor(CrcPoly, U32Shr(c, 1))
                                  ELSE U32Shr(c, 1),
                  k - 1)

CrcTable == [n \in 0..255 |-> CrcEntry(U32(n), 8)]

RECURSIVE CrcUpdate(_, _, _)
CrcUpdate(crc, data, i) ==
    IF i > Len(data) THEN crc
    ELSE CrcUpdate(U32Xor(CrcTable[XorTable[crc.lo % 256][data[i]]], U32Shr(crc, 8)),
                   data, i + 1)

crc32(data) == U32Xor(CrcUpdate(AllOnes, data, 1), AllOnes)

\* ------------------------------------------------------------------------
\* Frame codec
\* ------------------------------------------------------------------------
\* a header with the checksum and flags fields exchanged
encodeFrameHeaderFlagsFirst(payloadSize, checksum, flags) ==
    writeUInt32BE(U32(MAGIC)) \o writeUInt32BE(U32(VERSION))
        \o writeUInt32BE(payloadSize) \o writeUInt32BE(flags)
        \o writeUInt32BE(checksum)

encodeFrameHeader(payloadSize, checksum, flags) ==
    writeUInt32BE(U32(MAGIC)) \o writeUInt32BE(U32(VERSION))
        \o writeUInt32BE(payloadSize) \o writeUInt32BE(checksum)
        \o writeUInt32BE(flags)

\* the header fields of a buffer too short or of a failed decode
NoHeader ==
    [ok |-> FALSE, magic |-> U32(0), version |-> U32(0), payloadSize |-> U32(0),
     checksum |-> U32(0), flags |-> U32(0)]

\* a decoder that accepts every version
decodeFrameHeaderAnyVersion(buf) ==
    IF Len(buf) < HEADER_SIZE
    THEN NoHeader
    ELSE LET magic == readUInt32BE(buf, 0)
             version == readUInt32BE(buf, 4)
             payloadSize == readUInt32BE(buf, 8)
             checksum == readUInt32BE(buf, 12)
             flags == readUInt32BE(buf, 16)
         IN  [ok |-> magic = U32(MAGIC),
              magic |-> magic, version |-> version, payloadSize |-> payloadSize,
              checksum |-> checksum, flags |-> flags]

\* ok = FALSE stands for the thrown FramingError
decodeFrameHeader(buf) ==
    IF Len(buf) < HEADER_SIZE
    THEN NoHeader
    ELSE LET magic == readUInt32BE(buf, 0)
             version == readUInt32BE(buf, 4)
             payloadSize == readUInt32BE(buf, 8)
             checksum == readUInt32BE(buf, 12)
             flags == readUInt32BE(buf, 16)
         IN  [ok |-> (magic = U32(MAGIC)) /\ (version = U32(VERSION)),
              magic |-> magic, version |-> version, payloadSize |-> payloadSize,
              checksum |-> checksum, flags |-> flags]

encodeFrame(payload, flags) ==
    encodeFrameHeader(U32(Len(payload)), crc32(payload), flags) \o payload

isChunked(flags) == U32And(flags, U32(FLAG_CHUNKED)) # U32(0)
isLastChunk(flags) == U32And(flags, U32(FLAG_LAST_CHUNK)) # U32(0)
isError(flags) == U32And(flags, U32(FLAG_ERROR)) # U32(0)

\* ------------------------------------------------------------------------
\* FrameReader.tryReadFrame on a buffer: the result kind is "null" (no frame
\* yet), "frame" or "throw" (FramingError, with its message); buffer is the
\* reader's buffer after the call.
\* ------------------------------------------------------------------------
\* a resynchronisation that discards everything buffered
resyncDroppingAll(buf) == << >>

\* the catch branch: this.buffer.subarray(1)
resync(buf) == subarray(buf, 1, Len(buf))

\* a size test that lets every declared size pass
tooLargeNever(header, maxFrameSize) == FALSE

\* header.payloadSize > this.maxFrameSize
tooLarge(header, maxFrameSize) == U32Gt(header.payloadSize, U32(maxFrameSize))

\* a verification that accepts every payload
checksumUnverified(payload, header) == TRUE

\* computed === header.checksum
checksumOk(payload, header) == crc32(payload) = header.checksum

\* the messages of the two FramingErrors tryReadFrame throws
FrameTooLarge == "Frame too large"
Crc32Mismatch == "CRC32 mismatch"

\* a reader that forgets what follows the frame it returns
tryReadFrameDroppingRest(buf, maxFrameSize) ==
    IF Len(buf) < HEADER_SIZE
    THEN [kind |-> "null", buffer |-> buf, header |-> NoHeader, payload |-> << >>,
          message |-> ""]
    ELSE LET header == decodeFrameHeader(buf)
             totalSize == HEADER_SIZE + U32ToNat(header.payloadSize)
             payload == subarray(buf, HEADER_SIZE, totalSize)
         IN  IF ~header.ok
             THEN [kind |-> "null", buffer |-> resync(buf),
                   header |-> NoHeader, payload |-> << >>, message |-> ""]
             ELSE IF tooLarge(header, maxFrameSize)
             THEN [kind |-> "throw", buffer |-> buf, header |-> header,
                   payload |-> << >>, message |-> FrameTooLarge]
             ELSE IF Len(buf) < totalSize
             THEN [kind |-> "null", buffer |-> buf, header |-> NoHeader,
                   payload |-> << >>, message |-> ""]
             ELSE IF ~checksumOk(payload, header)
             THEN [kind |-> "throw", buffer |-> buf, header |-> header,
                   payload |-> << >>, message |-> Crc32Mismatch]
             ELSE [kind |-> "frame", buffer |-> << >>,
                   header |-> header, payload |-> payload, message |-> ""]

\* a FramingError that discards what the reader holds
framingErrorDiscarding(buf, header, message) ==
    [kind |-> "throw", buffer |-> << >>, header |-> header,
     payload |-> << >>, message |-> message]

\* throw new FramingError(message): the buffer is left as it is
framingError(buf, header, message) ==
    [kind |-> "throw", buffer |-> buf, header |-> header,
     payload |-> << >>, message |-> message]

tryReadFrame(buf, maxFrameSize) ==
    IF Len(buf) < HEADER_SIZE
    THEN [kind |-> "null", buffer |-> buf, header |-> NoHeader, payload |-> << >>,
          message |-> ""]
    ELSE LET header == decodeFrameHeader(buf)
             totalSize == HEADER_SIZE + U32ToNat(header.payloadSize)
             payload == subarray(buf, HEADER_SIZE, totalSize)
         IN  IF ~header.ok
             THEN [kind |-> "null", buffer |-> resync(buf),
                   header |-> NoHeader, payload |-> << >>, message |-> ""]
             ELSE IF tooLarge(header, maxFrameSize)
             THEN framingError(buf, header, FrameTooLarge)
             ELSE IF Len(buf) < totalSize
             THEN [kind |-> "null", buffer |-> buf, header |-> NoHeader,
                   payload |-> << >>, message |-> ""]
             ELSE IF ~checksumOk(payload, header)
             THEN framingError(buf, header, Crc32Mismatch)
             ELSE [kind |-> "frame", buffer |-> subarray(buf, totalSize, Len(buf)),
                   header |-> header, payload |-> payload, message |-> ""]

\* ------------------------------------------------------------------------
\* Envelope serialisation (toBinary / fromBinary of EnvelopeSchema).  The
\* client reads only requestId, payload.case and payload.value of an
\* Envelope; on the wire an Envelope is the three bytes
\* << requestId, case code, value >>, anything else does not decode.
\* ------------------------------------------------------------------------
CaseResponse == 1
CaseError == 2
\* the response case of another request, and a payload that is not set
CaseOther == 3
CaseNone == 0
CaseCodes == {CaseResponse, CaseError, CaseOther, CaseNone}
\* the discriminants as the error message prints them
CaseName(case) ==
    CASE case = CaseResponse -> "pongResponse"
      [] case = CaseOther -> "statusResponse"
      [] case = CaseError -> "error"
      [] OTHER -> "undefined"

toBinary(envelope) == << envelope.requestId, envelope.case, envelope.value >>

\* ok = FALSE stands for the exception thrown by fromBinary
fromBinary(bytes) ==
    IF Len(bytes) = 3 /\ bytes[2] \in CaseCodes
    THEN [ok |-> TRUE, requestId |-> bytes[1], case |-> bytes[2], value |-> bytes[3]]
    ELSE [ok |-> FALSE, requestId |-> 0, case |-> 0, value |-> 0]

\* ------------------------------------------------------------------------
\* State
\* ------------------------------------------------------------------------
VARIABLES
    \* SocketConnection
    socket,               \* this.socket: 0 (null) or a socket
    connected,            \* this._connected
    disposed,             \* this._disposed
    reconnectAttempt,     \* this.reconnectAttempt
    reconnectTimer,       \* this.reconnectTimer: "armed", or "null" (null or expired)
    orphanTimers,         \* armed reconnect timers the field no longer holds
    listeners,            \* the client's data/close listeners are registered
    autoReconnect,        \* option autoReconnect
    maxReconnectAttempts, \* option maxReconnectAttempts
    reconnectMaxMs,       \* option reconnectMaxMs
    \* the sockets created by net.createConnection
    socks,                \* socket -> "unused", "connecting", "open", "closed"
    \* YamsDaemonClient
    nextRequestId,        \* this.nextRequestId
    pending,              \* this.pending: requestId -> [chunks]
    timers,               \* request ids whose timeout timer is armed
    buffer,               \* this.reader.buffer
    \* observation
    settle,               \* requestId -> the resolve/reject calls on its future
    writes,               \* requestId -> the sockets its frame was written to
    allocated,            \* the request ids allocated by send(), in order
    lastRead,             \* what the last inbound read dispatched, frame by frame
    notified,             \* the "reconnecting" notifications the last step emitted
    lastDelay,            \* the delay of the last notification emitted, 0 before
    disconnectCalled,     \* disconnect() was called and connect() not since
    \* a FrameReader driven on its own (its buffer is the variable buffer)
    stream,               \* the bytes the peer has still to deliver
    sent,                 \* the frames the peer encoded, in order
    garbage,              \* the number of garbage bytes the peer put before them
    got,                  \* the frames tryReadFrame has returned, in order
    lastResult,           \* the last tryReadFrame since the last append, or "none"
    lastError,            \* the message of the last FramingError thrown, "" before
    damage,               \* what the peer did to the last frame after encoding it
    \* the typed request methods of YamsDaemonClient
    expecting,            \* requestId -> the payload case its method expects
    returned,             \* requestId -> what its method returned or threw
    \* resolveSocketPath
    env,                  \* process.env and os.userInfo().uid
    resolved,             \* the last result of resolveSocketPath, with the env it read
    \* YamsBlackboard over a document store
    docs,                 \* document name -> content (the store behind the client)
    addCalls,             \* the client.add calls made, in order
    regs,                 \* the registerAgent calls, in order of their start
    clock,                \* the clock nowISO() reads
    claims,               \* the claimTask calls, in order of their start
    bufferFrom,           \* the stream that delivered the oldest byte the client's reader holds, 0 when it holds none
    \* the extension entry point (activate)
    phase,                \* where activate() is: "start", "connecting", "ready", "polling", "deactivated"
    connectInFlight,      \* the flag of ensureConnected
    awaited,              \* the stream of the connect() the extension awaits, 0 for none
    sessionStarted,       \* the flag of startSessionOnce
    sessionPending,       \* the streams that carry a useSession request not yet answered
    sessionCalls,         \* stream -> the startSession calls made while it was the client's stream
    sessionFailures       \* stream -> the startSession calls made on it that have failed

connVars == << socket, connected, disposed, reconnectAttempt, reconnectTimer,
               orphanTimers, listeners, autoReconnect, maxReconnectAttempts,
               reconnectMaxMs >>
clientVars == << nextRequestId, pending, timers, buffer, settle, writes, allocated >>
readerVars == << stream, sent, garbage, got, lastResult, lastError, damage >>
wrapperVars == << expecting, returned >>
pathVars == << env, resolved >>
blackboardVars == << docs, addCalls, regs, clock >>
taskVars == << claims >>
extVars == << phase, connectInFlight, awaited, sessionStarted, sessionPending,
             sessionCalls, sessionFailures >>
sideVars == << taskVars, extVars, bufferFrom >>
restVars == << wrapperVars, pathVars, blackboardVars, sideVars >>
vars == << connVars, socks, clientVars, lastRead, notified, lastDelay,
          disconnectCalled, readerVars, restVars >>

Ids == 1..MaxRequests
Sockets == 1..MaxSockets
NoPending == [id \in {} |-> [chunks |-> << >>]]

\* The outcomes a future can be settled with
Resolved(envelope) ==
    [kind |-> "resolve", rid |-> envelope.requestId, case |-> envelope.case,
     value |-> envelope.value]
DaemonError(code) == [kind |-> "DaemonError", rid |-> 0, case |-> 0, value |-> code]
RequestTimeoutError(requestId, timeoutMs) ==
    [kind |-> "RequestTimeoutError", rid |-> requestId, case |-> 0, value |-> timeoutMs]
PlainError(message) == [kind |-> message, rid |-> 0, case |-> 0, value |-> 0]

\* Map.delete
MapDelete(map, key) == [k \in (DOMAIN map) \ {key} |-> map[k]]
\* Map.set
MapSet(map, key, val) == [k \in (DOMAIN map) \cup {key} |-> IF k = key THEN val ELSE map[k]]

\* The part of the client a handler works on
ClientState ==
    [pending |-> pending, timers |-> timers, settle |-> settle, buffer |-> buffer,
     log |-> << >>]

\* the promise callbacks: a call of resolve or reject of request id
Settle(c, id, outcome) ==
    [c EXCEPT !.settle = [@ EXCEPT ![id] = Append(@, outcome)]]

\* ------------------------------------------------------------------------
\* YamsDaemonClient: inbound path
\* ------------------------------------------------------------------------
Logged(c, tag, id, flags) ==
    [c EXCEPT !.log = Append(@, [tag |-> tag, rid |-> id, flags |-> flags])]

\* this.pending.delete(requestId) without clearTimeout
ForgetKeepingTimer(c, id) ==
    [c EXCEPT !.pending = MapDelete(@, id)]

\* clearTimeout(pending.timer); this.pending.delete(requestId)
Forget(c, id) ==
    [c EXCEPT !.timers = @ \ {id}, !.pending = MapDelete(@, id)]

\* the key the pending map is looked up with
correlateOldest(c, envelope) ==
    IF DOMAIN c.pending = {} THEN envelope.requestId
    ELSE CHOOSE id \in DOMAIN c.pending : \A other \in DOMAIN c.pending : id <= other

correlate(c, envelope) == envelope.requestId

\* the test for an error response
isErrorResponseUnchunked(flags, envelope) ==
    ~isChunked(flags) /\ (isError(flags) \/ envelope.case = CaseError)

isErrorResponse(flags, envelope) == isError(flags) \/ envelope.case = CaseError

\* the envelope a chunked response is resolved with
finalEnvelopeFromFirstChunk(entry, envelope) ==
    IF entry.chunks = << >> THEN envelope ELSE fromBinary(entry.chunks[1])

finalEnvelope(entry, envelope) == envelope

\* an accumulation that also clears the timer of the request
pushChunkClearingTimer(c, requestId, payload) ==
    [c EXCEPT !.pending[requestId].chunks = Append(@, payload),
              !.timers = @ \ {requestId}]

\* pending.chunks.push(frame.payload)
pushChunk(c, requestId, payload) ==
    [c EXCEPT !.pending[requestId].chunks = Append(@, payload)]

handleFrame(c, frame) ==
    LET envelope == fromBinary(frame.payload)
        requestId == correlate(c, envelope)
        flags == frame.header.flags
        f == U32ToNat(flags)
    IN  IF ~envelope.ok
        THEN Logged(c, "nodecode", 0, 0)
        ELSE IF requestId \notin DOMAIN c.pending
        THEN Logged(c, "nomatch", requestId, 0)
        ELSE IF isErrorResponse(flags, envelope)
        THEN Logged(Settle(Forget(c, requestId), requestId,
                           DaemonError(IF envelope.case = CaseError
                                       THEN envelope.value ELSE -1)),
                    "error", requestId, f)
        ELSE IF isChunked(flags)
        THEN LET pushed == pushChunk(c, requestId, frame.payload)
             IN  IF isLastChunk(flags)
                 THEN Logged(Settle(Forget(pushed, requestId), requestId,
                                    Resolved(finalEnvelope(c.pending[requestId],
                                                           envelope))),
                             "lastchunk", requestId, f)
                 ELSE Logged(pushed, "chunk", requestId, f)
        ELSE Logged(Settle(Forget(c, requestId), requestId, Resolved(envelope)),
                    "resolve", requestId, f)

\* a read that dispatches its first frame only
DrainOnce(c) ==
    LET r == tryReadFrame(c.buffer, MAX_FRAME_SIZE)
    IN  IF r.kind = "frame"
        THEN handleFrame([c EXCEPT !.buffer = r.buffer],
                         [header |-> r.header, payload |-> r.payload])
        ELSE IF r.kind = "throw"
        THEN Logged(c, "throw", 0, 0)
        ELSE [c EXCEPT !.buffer = r.buffer]

\* the loop of onData: while ((frame = this.reader.tryReadFrame())) handleFrame
RECURSIVE Drain(_)
Drain(c) ==
    LET r == tryReadFrame(c.buffer, MAX_FRAME_SIZE)
    IN  IF r.kind = "frame"
        THEN Drain(handleFrame([c EXCEPT !.buffer = r.buffer],
                               [header |-> r.header, payload |-> r.payload]))
        ELSE IF r.kind = "throw"
        THEN Logged(c, "throw", 0, 0)
        ELSE [c EXCEPT !.buffer = r.buffer]

onData(c, chunk) == Drain([c EXCEPT !.buffer = @ \o chunk])

\* rejectAll without clearTimeout
rejectAllLeavingTimers(c, error) ==
    [c EXCEPT !.settle = [id \in DOMAIN @ |->
                             IF id \in DOMAIN c.pending THEN Append(@[id], error)
                                                        ELSE @[id]],
              !.pending = NoPending]

\* rejectAll without this.pending.clear()
rejectAllKeepingEntries(c, error) ==
    [c EXCEPT !.settle = [id \in DOMAIN @ |->
                             IF id \in DOMAIN c.pending THEN Append(@[id], error)
                                                        ELSE @[id]],
              !.timers = @ \ DOMAIN c.pending]

rejectAll(c, error) ==
    [c EXCEPT !.settle = [id \in DOMAIN @ |->
                             IF id \in DOMAIN c.pending THEN Append(@[id], error)
                                                        ELSE @[id]],
              !.timers = @ \ DOMAIN c.pending,
              !.pending = NoPending]

onClose(c) == rejectAll(c, PlainError("Connection closed"))

\* the state a handler leaves the client in
ClientBecomes(after) ==
    \E c \in {after} :
        /\ pending' = c.pending
        /\ timers' = c.timers
        /\ settle' = c.settle
        /\ buffer' = c.buffer

\* ------------------------------------------------------------------------
\* SocketConnection
\* ------------------------------------------------------------------------
ConnState ==
    [socket |-> socket, connected |-> connected, disposed |-> disposed,
     reconnectAttempt |-> reconnectAttempt, reconnectTimer |-> reconnectTimer,
     orphanTimers |-> orphanTimers, listeners |-> listeners, emitted |-> << >>]

ConnBecomes(after) ==
    \E k \in {after} :
        /\ socket' = k.socket
        /\ connected' = k.connected
        /\ disposed' = k.disposed
        /\ reconnectAttempt' = k.reconnectAttempt
        /\ reconnectTimer' = k.reconnectTimer
        /\ orphanTimers' = k.orphanTimers
        /\ listeners' = k.listeners
        /\ notified' = k.emitted
        /\ lastDelay' = IF k.emitted = << >> THEN lastDelay
                        ELSE k.emitted[Len(k.emitted)].delay
        /\ UNCHANGED << autoReconnect, maxReconnectAttempts, reconnectMaxMs >>

\* Math.pow(2, n) for the exponents a run reaches
RECURSIVE Pow2(_)
Pow2(n) == IF n <= 0 THEN 1 ELSE 2 * Pow2(n - 1)

Min(a, b) == IF a <= b THEN a ELSE b

\* a delay that doubles once too often
reconnectDelayFromAttempt(attempt, maxMs) == Min(ReconnectBaseMs * Pow2(attempt), maxMs)

\* the delay of scheduleReconnect for the attempt number it has just counted
reconnectDelay(attempt, maxMs) == Min(ReconnectBaseMs * Pow2(attempt - 1), maxMs)

\* scheduleReconnect without the test of the attempt cap
scheduleReconnectUncapped(k) ==
    IF k.disposed THEN k
    ELSE [k EXCEPT !.reconnectAttempt = @ + 1,
                   !.emitted = Append(@, [attempt |-> k.reconnectAttempt + 1,
                                          delay |-> reconnectDelay(k.reconnectAttempt + 1,
                                                                   reconnectMaxMs)]),
                   !.orphanTimers = IF k.reconnectTimer = "armed" THEN @ + 1 ELSE @,
                   !.reconnectTimer = "armed"]

\* scheduleReconnect with Math.min left out
scheduleReconnectNoMaximum(k) ==
    IF k.disposed THEN k
    ELSE IF k.reconnectAttempt >= maxReconnectAttempts THEN k
    ELSE [k EXCEPT !.reconnectAttempt = @ + 1,
                   !.emitted = Append(@, [attempt |-> k.reconnectAttempt + 1,
                                          delay |-> ReconnectBaseMs
                                                        * Pow2(k.reconnectAttempt)]),
                   !.orphanTimers = IF k.reconnectTimer = "armed" THEN @ + 1 ELSE @,
                   !.reconnectTimer = "armed"]

\* a timer the field still holds stays armed when the field is overwritten
scheduleReconnect(k) ==
    IF k.disposed THEN k
    ELSE IF k.reconnectAttempt >= maxReconnectAttempts THEN k
    ELSE [k EXCEPT !.reconnectAttempt = @ + 1,
                   !.emitted = Append(@, [attempt |-> k.reconnectAttempt + 1,
                                          delay |-> reconnectDelay(k.reconnectAttempt + 1,
                                                                   reconnectMaxMs)]),
                   !.orphanTimers = IF k.reconnectTimer = "armed" THEN @ + 1 ELSE @,
                   !.reconnectTimer = "armed"]

cancelReconnect(k) ==
    IF k.reconnectTimer # "null" THEN [k EXCEPT !.reconnectTimer = "null"] ELSE k

\* disconnect() up to the socket: the caller destroys k.socket
disconnect(k) ==
    [cancelReconnect(k) EXCEPT !.connected = FALSE, !.socket = 0]

dispose(k) ==
    [disconnect([k EXCEPT !.disposed = TRUE]) EXCEPT !.listeners = FALSE]

\* a "connect" handler that keeps the attempt counter
onSockConnectKeepingAttempt(k, s) ==
    [k EXCEPT !.socket = s, !.connected = TRUE]

\* the socket's "connect" handler of connect()
onSockConnect(k, s) ==
    [k EXCEPT !.socket = s, !.connected = TRUE, !.reconnectAttempt = 0]

\* a failed attempt that asks for a retry
onSockErrorRetrying(k) == scheduleReconnect(k)

\* the attempt's "error" handler of connect(): clearTimeout, reject
onSockError(k) == k

\* the connect timeout callback of connect(): sock.destroy(), reject
onConnectTimeout(k) == k

\* the socket's "close" handler of wireEvents
onSockClose(k) ==
    LET closed == [k EXCEPT !.connected = FALSE, !.socket = 0]
    IN  IF autoReconnect /\ ~k.disposed THEN scheduleReconnect(closed) ELSE closed

\* write(data): TRUE when the bytes are handed to the socket, FALSE for the throw
writeOk(k) == ~(k.socket = 0 \/ ~k.connected)

FreeSocket == CHOOSE s \in DOMAIN socks : socks[s] = "unused" /\ \A t \in DOMAIN socks : t < s => socks[t] # "unused"
HasFreeSocket == \E s \in DOMAIN socks : socks[s] = "unused"

\* connect() without the test of the connected flag
connectOpensWhileConnected(k) == ~k.disposed

\* connect() opens a stream unless already connected (no-op) or disposed (reject)
connectOpens(k) == ~k.connected /\ ~k.disposed

\* what connect() returns at once: a resolved promise, a rejected one, or the
\* promise of the attempt it starts
connectResult(k) ==
    IF k.connected THEN "resolved"
    ELSE IF k.disposed THEN "rejected"
    ELSE "attempt"

\* ------------------------------------------------------------------------
\* YamsDaemonClient: outbound path and timers
\* ------------------------------------------------------------------------
\* send() that rejects on a failed write but leaves the timer and the entry
sendNoCleanup(c, requestId, k) ==
    LET armed == [c EXCEPT !.timers = @ \cup {requestId},
                           !.pending = MapSet(@, requestId, [chunks |-> << >>])]
    IN  IF writeOk(k)
        THEN Logged(armed, "written", requestId, 0)
        ELSE Logged(Settle(armed, requestId, PlainError("Socket not connected")),
                    "writefail", requestId, 0)

\* the promise executor of send(): arm the timer, register, write
send(c, requestId, k) ==
    LET armed == [c EXCEPT !.timers = @ \cup {requestId},
                           !.pending = MapSet(@, requestId, [chunks |-> << >>])]
    IN  IF writeOk(k)
        THEN Logged(armed, "written", requestId, 0)
        ELSE Logged(Settle(Forget(armed, requestId), requestId,
                           PlainError("Socket not connected")),
                    "writefail", requestId, 0)

\* an allocation that does not advance the counter
nextIdStuck(n) == n

\* this.nextRequestId++ : the value of nextRequestId after the allocation
nextIdAfter(n) == n + 1

\* a timer callback that clears the whole map
onTimeoutClearingAll(c, requestId) ==
    Settle([c EXCEPT !.pending = NoPending], requestId,
           RequestTimeoutError(requestId, RequestTimeoutMs))

\* the setTimeout callback of send()
onTimeout(c, requestId) ==
    Settle([c EXCEPT !.pending = MapDelete(@, requestId)], requestId,
           RequestTimeoutError(requestId, RequestTimeoutMs))

\* ------------------------------------------------------------------------
\* What the daemon may put on the wire, and how a read may cut it
\* ------------------------------------------------------------------------
FlagCases ==
    { << 0, CaseResponse >>, << 0, CaseError >>,
      << FLAG_CHUNKED, CaseResponse >>,
      << FLAG_CHUNKED + FLAG_LAST_CHUNK, CaseResponse >>,
      << FLAG_ERROR, CaseResponse >>,
      << FLAG_ERROR + FLAG_CHUNKED + FLAG_LAST_CHUNK, CaseResponse >> }
\* the payload value of a frame tells its flags, so that an answer shows the
\* frame it was decoded from
ValueOf(flags) == flags + 1
ResponseFrame(id, flags, case) ==
    encodeFrame(toBinary([requestId |-> id, case |-> case, value |-> ValueOf(flags)]),
                U32(flags))
Frames == { ResponseFrame(id, fc[1], fc[2]) : id \in Ids, fc \in FlagCases }
UndecodableFrame == encodeFrame(<< 255 >>, U32(0))
PlainFrames == { ResponseFrame(id, 0, CaseResponse) : id \in Ids }
SplitFrame == ResponseFrame(1, 0, CaseResponse)
SplitAt == 7
SplitHead == SubSeq(SplitFrame, 1, SplitAt)
SplitTail == SubSeq(SplitFrame, SplitAt + 1, Len(SplitFrame))
\* one or two whole frames in a read, or a frame cut after its first bytes
Chunks ==
    Frames \cup {UndecodableFrame}
        \cup { f \o g : f \in {UndecodableFrame} \cup PlainFrames, g \in PlainFrames }
        \cup { ResponseFrame(id, FLAG_CHUNKED, CaseResponse)
                 \o ResponseFrame(id, FLAG_CHUNKED + FLAG_LAST_CHUNK, CaseResponse) :
                 id \in Ids }
        \cup {SplitHead, SplitTail}
\* the stream continues the frame it has begun
Deliverable(buf, chunk) ==
    /\ chunk = SplitHead => buf = << >>
    /\ chunk = SplitTail => buf = SplitHead

\* ------------------------------------------------------------------------
\* Initial state: the client after its constructor
\* ------------------------------------------------------------------------
Fresh ==
    /\ socket = 0
    /\ connected = FALSE
    /\ disposed = FALSE
    /\ reconnectAttempt = 0
    /\ reconnectTimer = "null"
    /\ orphanTimers = 0
    /\ listeners = TRUE
    /\ autoReconnect \in BOOLEAN
    /\ nextRequestId = 1
    /\ pending = NoPending
    /\ timers = {}
    /\ buffer = << >>
    /\ settle = [id \in Ids |-> << >>]
    /\ writes = [id \in Ids |-> << >>]
    /\ allocated = << >>
    /\ lastRead = << >>
    /\ notified = << >>
    /\ lastDelay = 0
    /\ disconnectCalled = FALSE
    /\ bufferFrom = 0

\* a reader nobody drives
NoReader ==
    /\ stream = << >>
    /\ sent = << >>
    /\ garbage = 0
    /\ got = << >>
    /\ lastResult = "none"
    /\ lastError = ""
    /\ damage = "none"

\* no typed request method called yet
NoWrapper ==
    /\ expecting = [id \in {} |-> 0]
    /\ returned = [id \in {} |-> 0]

\* an environment with neither variable set, nothing resolved yet
UnsetVar == [set |-> FALSE, value |-> << >>]
NoPath ==
    /\ env = [YAMS_DAEMON_SOCKET |-> UnsetVar, XDG_RUNTIME_DIR |-> UnsetVar, uid |-> 0]
    /\ resolved = << >>

\* an empty document store and no blackboard call yet
NoBlackboard ==
    /\ docs = [name \in {} |-> << >>]
    /\ addCalls = << >>
    /\ regs = << >>
    /\ clock = 0

\* no claimTask call yet
NoTasks == claims = << >>

\* an extension that is not activated
NoExtension ==
    /\ phase = "none"
    /\ connectInFlight = FALSE
    /\ awaited = 0
    /\ sessionStarted = FALSE
    /\ sessionPending = {}
    /\ sessionCalls = [s \in {} |-> 0]
    /\ sessionFailures = [s \in {} |-> 0]

\* the options the extension constructs its client with: the defaults
Init ==
    /\ Fresh
    /\ NoReader
    /\ NoWrapper
    /\ NoPath
    /\ NoBlackboard
    /\ NoTasks
    /\ NoExtension
    /\ socks = [s \in Sockets |-> "unused"]
    /\ maxReconnectAttempts = Infinity
    /\ reconnectMaxMs = ReconnectMaxMs

\* ------------------------------------------------------------------------
\* Actions
\* ------------------------------------------------------------------------
\* a caller calls connect()
Connect ==
    /\ IF connectOpens(ConnState)
       THEN /\ HasFreeSocket
            /\ socks' = [socks EXCEPT ![FreeSocket] = "connecting"]
       ELSE UNCHANGED socks
    /\ lastRead' = << >>
    /\ notified' = << >>
    /\ disconnectCalled' = FALSE
    /\ UNCHANGED << connVars, clientVars, lastDelay, readerVars, restVars >>

\* the stream of a connect() attempt is established
SockConnect(s) ==
    /\ socks[s] = "connecting"
    /\ socks' = [socks EXCEPT ![s] = "open"]
    /\ ConnBecomes(onSockConnect(ConnState, s))
    /\ lastRead' = << >>
    /\ UNCHANGED << clientVars, disconnectCalled, readerVars, restVars >>

\* the stream of a connect() attempt fails: the attempt is rejected
SockConnectError(s) ==
    /\ socks[s] = "connecting"
    /\ socks' = [socks EXCEPT ![s] = "closed"]
    /\ ConnBecomes(onSockError(ConnState))
    /\ lastRead' = << >>
    /\ UNCHANGED << clientVars, disconnectCalled, readerVars, restVars >>

\* the connect timeout of an attempt expires: sock.destroy(), reject
ConnectTimeout(s) ==
    /\ socks[s] = "connecting"
    /\ socks' = [socks EXCEPT ![s] = "closed"]
    /\ ConnBecomes(onConnectTimeout(ConnState))
    /\ lastRead' = << >>
    /\ UNCHANGED << clientVars, disconnectCalled, readerVars, restVars >>

\* a wired stream delivers a chunk: emit("data") -> onData
SockData(s, chunk) ==
    /\ socks[s] = "open"
    /\ Len(buffer) + Len(chunk) <= MaxBuffer
    /\ Deliverable(buffer, chunk)
    /\ \E c \in {IF listeners THEN onData(ClientState, chunk) ELSE ClientState} :
           /\ \A id \in DOMAIN c.pending : Len(c.pending[id].chunks) <= MaxChunks
           /\ ClientBecomes(c)
           /\ lastRead' = c.log
           /\ bufferFrom' = IF c.buffer = << >> THEN 0
                            ELSE IF Len(c.buffer) <= Len(chunk) THEN s
                            ELSE bufferFrom
    /\ notified' = << >>
    /\ UNCHANGED << connVars, socks, nextRequestId, writes, allocated,
                    lastDelay, disconnectCalled, readerVars, wrapperVars,
                    pathVars, blackboardVars, taskVars, extVars >>

\* a wired stream closes: the close handler of wireEvents, emit("close") -> onClose
SockClose(s) ==
    /\ socks[s] = "open"
    /\ socks' = [socks EXCEPT ![s] = "closed"]
    /\ ConnBecomes(onSockClose(ConnState))
    /\ ClientBecomes(IF listeners THEN onClose(ClientState) ELSE ClientState)
    /\ lastRead' = << >>
    /\ UNCHANGED << nextRequestId, writes, allocated, disconnectCalled, readerVars, restVars >>

\* a reconnect timer fires: the callback of scheduleReconnect
ReconnectFires(k) ==
    /\ IF ~(k.disposed \/ k.connected) /\ connectOpens(k)
       THEN /\ HasFreeSocket
            /\ socks' = [socks EXCEPT ![FreeSocket] = "connecting"]
       ELSE UNCHANGED socks
    /\ lastRead' = << >>
    /\ ConnBecomes(k)
    /\ UNCHANGED << clientVars, disconnectCalled, readerVars, restVars >>

ReconnectTimer ==
    /\ reconnectTimer = "armed"
    /\ ReconnectFires([ConnState EXCEPT !.reconnectTimer = "null"])

OrphanTimer ==
    /\ orphanTimers > 0
    /\ ReconnectFires([ConnState EXCEPT !.orphanTimers = @ - 1])

\* client.disconnect(): conn.disconnect(), rejectAll
Disconnect ==
    /\ ConnBecomes(disconnect(ConnState))
    /\ socks' = [s \in DOMAIN socks |-> IF s = socket THEN "closed" ELSE socks[s]]
    /\ ClientBecomes(rejectAll(ClientState, PlainError("Client disconnected")))
    /\ lastRead' = << >>
    /\ disconnectCalled' = TRUE
    /\ UNCHANGED << nextRequestId, writes, allocated, readerVars, restVars >>

\* client.dispose(): conn.dispose(), rejectAll
Dispose ==
    /\ ConnBecomes(dispose(ConnState))
    /\ socks' = [s \in DOMAIN socks |-> IF s = socket THEN "closed" ELSE socks[s]]
    /\ ClientBecomes(rejectAll(ClientState, PlainError("Client disposed")))
    /\ lastRead' = << >>
    /\ disconnectCalled' = TRUE
    /\ UNCHANGED << nextRequestId, writes, allocated, readerVars, restVars >>

\* send() called by a typed request method or by any other caller
SendRequest ==
    /\ Len(allocated) < MaxRequests
    /\ nextRequestId \in Ids
    /\ LET requestId == nextRequestId
       IN  /\ nextRequestId' = nextIdAfter(nextRequestId)
           /\ allocated' = Append(allocated, requestId)
           /\ writes' = IF writeOk(ConnState)
                        THEN [writes EXCEPT ![requestId] = Append(@, socket)]
                        ELSE writes
           /\ ClientBecomes(send(ClientState, requestId, ConnState))
           /\ lastRead' = << >>
    /\ notified' = << >>
    /\ UNCHANGED << connVars, socks, lastDelay, disconnectCalled, readerVars >>

\* a caller calls send()
Send ==
    /\ SendRequest
    /\ UNCHANGED restVars

\* the timeout timer of a request expires
Timeout(id) ==
    /\ id \in timers
    /\ ClientBecomes(onTimeout([ClientState EXCEPT !.timers = @ \ {id}], id))
    /\ lastRead' = << >>
    /\ notified' = << >>
    /\ UNCHANGED << connVars, socks, nextRequestId, writes, allocated,
                    lastDelay, disconnectCalled, readerVars, restVars >>

Next ==
    \/ Connect
    \/ \E s \in Sockets : SockConnect(s)
    \/ \E s \in Sockets : SockConnectError(s)
    \/ \E s \in Sockets : ConnectTimeout(s)
    \/ \E s \in Sockets : \E chunk \in Chunks : SockData(s, chunk)
    \/ \E s \in Sockets : SockClose(s)
    \/ ReconnectTimer
    \/ OrphanTimer
    \/ Disconnect
    \/ Dispose
    \/ Send
    \/ \E id \in Ids : Timeout(id)

Spec == Init /\ [][Next]_vars

\* every armed request timer eventually fires
FairSpec == Spec /\ \A id \in Ids : WF_vars(Timeout(id))

\* ------------------------------------------------------------------------
\* The typed request methods (ping, status, ...): each awaits send() and
\* passes the resolved envelope to extractPayload with the case it expects.
\* ping expects pongResponse (CaseResponse), status expects statusResponse
\* (CaseOther).
\* ------------------------------------------------------------------------
Returned(value) == [kind |-> "return", expected |-> "", actual |-> "", value |-> value]
Thrown(kind, value) == [kind |-> kind, expected |-> "", actual |-> "", value |-> value]
\* DaemonError(-1, 'Unexpected response type: expected "..", got ".."')
UnexpectedResponse(expected, actual) ==
    [kind |-> "DaemonError", expected |-> expected, actual |-> actual, value |-> 0 - 1]

\* an extraction that does not look at the case
extractPayloadUnchecked(envelope, expectedCase) == Returned(envelope.value)

extractPayload(envelope, expectedCase) ==
    IF envelope.case = CaseError
    THEN Thrown("DaemonError", envelope.value)
    ELSE IF envelope.case # expectedCase
    THEN UnexpectedResponse(CaseName(expectedCase), CaseName(envelope.case))
    ELSE Returned(envelope.value)

\* const resp = await this.send(..); return this.extractPayload(resp, case)
afterSend(outcome, expectedCase) ==
    IF outcome.kind = "resolve"
    THEN extractPayload([requestId |-> outcome.rid, case |-> outcome.case,
                         value |-> outcome.value], expectedCase)
    ELSE Thrown(outcome.kind, outcome.value)

ExpectedCases == { CaseResponse, CaseOther }

\* a typed request method is called and calls send()
Call(expectedCase) ==
    /\ SendRequest
    /\ expecting' = MapSet(expecting, nextRequestId, expectedCase)
    /\ UNCHANGED << returned, pathVars, blackboardVars, sideVars >>

\* the method resumes after its await: it returns or throws
Return(id) ==
    /\ id \in (DOMAIN expecting) \ (DOMAIN returned)
    /\ settle[id] # << >>
    /\ returned' = MapSet(returned, id, afterSend(settle[id][1], expecting[id]))
    /\ lastRead' = << >>
    /\ notified' = << >>
    /\ UNCHANGED << connVars, socks, clientVars, lastDelay, disconnectCalled,
                    readerVars, expecting, pathVars, blackboardVars, sideVars >>

\* the answers the daemon may give to a request
WrapperFlagCases ==
    { << 0, CaseResponse >>, << 0, CaseOther >>, << 0, CaseNone >>, << 0, CaseError >>,
      << FLAG_CHUNKED + FLAG_LAST_CHUNK, CaseOther >> }
WrapperFrames == { ResponseFrame(id, fc[1], fc[2]) : id \in Ids, fc \in WrapperFlagCases }

WrapperNext ==
    \/ Connect
    \/ \E s \in Sockets : SockConnect(s)
    \/ \E expectedCase \in ExpectedCases : Call(expectedCase)
    \/ \E s \in Sockets, chunk \in WrapperFrames : SockData(s, chunk)
    \/ \E id \in Ids : Timeout(id)
    \/ \E id \in Ids : Return(id)

WrapperSpec == Init /\ [][WrapperNext]_vars

\* ------------------------------------------------------------------------
\* resolveSocketPath.  A string is the sequence of the pieces it was put
\* together from (the empty string is << >>); an environment variable is
\* unset or holds a string.
\* ------------------------------------------------------------------------
EnvVar(value) == [set |-> TRUE, value |-> value]
\* if (explicit), if (xdg): undefined and "" are falsy
Truthy(v) == v.set /\ v.value # << >>

\* a resolution that looks at the runtime directory first
resolveSocketPathRuntimeFirst(e) ==
    IF Truthy(e.XDG_RUNTIME_DIR)
    THEN e.XDG_RUNTIME_DIR.value \o << "/yams-daemon.sock" >>
    ELSE IF Truthy(e.YAMS_DAEMON_SOCKET)
    THEN e.YAMS_DAEMON_SOCKET.value
    ELSE << "/tmp/yams-daemon-", ToString(e.uid), ".sock" >>

resolveSocketPath(e) ==
    IF Truthy(e.YAMS_DAEMON_SOCKET)
    THEN e.YAMS_DAEMON_SOCKET.value
    ELSE IF Truthy(e.XDG_RUNTIME_DIR)
    THEN e.XDG_RUNTIME_DIR.value \o << "/yams-daemon.sock" >>
    ELSE << "/tmp/yams-daemon-", ToString(e.uid), ".sock" >>

\* the environments resolveSocketPath is called in
SocketValues ==
    { UnsetVar, EnvVar(<< >>), EnvVar(<< "/tmp/custom.sock" >>), EnvVar(<< "custom.sock" >>) }
DirValues ==
    { UnsetVar, EnvVar(<< >>), EnvVar(<< "/run/user/1000" >>), EnvVar(<< "/tmp/custom.sock" >>) }
Uids == { 0, 1000 }

PathInit ==
    /\ Fresh
    /\ NoReader
    /\ NoWrapper
    /\ NoBlackboard
    /\ NoTasks
    /\ NoExtension
    /\ socks = [s \in Sockets |-> "unused"]
    /\ maxReconnectAttempts = Infinity
    /\ reconnectMaxMs = ReconnectMaxMs
    /\ env \in [YAMS_DAEMON_SOCKET : SocketValues, XDG_RUNTIME_DIR : DirValues, uid : Uids]
    /\ resolved = << >>

\* process.env.YAMS_DAEMON_SOCKET is assigned or deleted
SetSocketVar(v) ==
    /\ env.YAMS_DAEMON_SOCKET # v
    /\ env' = [env EXCEPT !.YAMS_DAEMON_SOCKET = v]
    /\ UNCHANGED << connVars, socks, clientVars, lastRead, notified, lastDelay,
                    disconnectCalled, readerVars, wrapperVars, resolved, blackboardVars,
                    sideVars >>

\* process.env.XDG_RUNTIME_DIR is assigned or deleted
SetDirVar(v) ==
    /\ env.XDG_RUNTIME_DIR # v
    /\ env' = [env EXCEPT !.XDG_RUNTIME_DIR = v]
    /\ UNCHANGED << connVars, socks, clientVars, lastRead, notified, lastDelay,
                    disconnectCalled, readerVars, wrapperVars, resolved, blackboardVars,
                    sideVars >>

\* resolveSocketPath() is called
ResolvePath ==
    /\ resolved' = << [from |-> env, path |-> resolveSocketPath(env)] >>
    /\ UNCHANGED << connVars, socks, clientVars, lastRead, notified, lastDelay,
                    disconnectCalled, readerVars, wrapperVars, env, blackboardVars,
                    sideVars >>

PathNext ==
    \/ \E v \in SocketValues : SetSocketVar(v)
    \/ \E v \in DirValues : SetDirVar(v)
    \/ ResolvePath

PathSpec == PathInit /\ [][PathNext]_vars

\* ------------------------------------------------------------------------
\* YamsBlackboard.registerAgent over a document store that keeps the last
\* content added under a name and answers cat with it (not found: cat
\* throws).  A call is suspended at its two awaits: the read (getAgent) and
\* the write (store).
\* ------------------------------------------------------------------------
MaxCalls == 2
AgentId == "vscode-yams-1"
AgentNames == { "Agent One", "Agent Two" }
AgentCapabilities ==
    { << "yams", "search" >>, << "search", "yams", "yams" >>, << "yams" >> }
\* "" stands for a status that is not given
AgentStatuses == { "", "active", "idle" }
Agents ==
    [id : {AgentId}, name : AgentNames, capabilities : AgentCapabilities,
     status : AgentStatuses]

\* `agents/${agent.id}.json`
AgentDoc(id) == << "agents/", id, ".json" >>

\* JSON.stringify of a card: its members, in order
stringify(card) ==
    << << "id", card.id >>, << "name", card.name >>,
       << "capabilities", card.capabilities >>,
       << "registered_at", card.registered_at >>, << "status", card.status >> >>
\* JSON.parse: the object with the members of the text
parse(content) ==
    [key \in { content[i][1] : i \in DOMAIN content } |->
        content[CHOOSE i \in DOMAIN content : content[i][1] = key][2]]

\* { ...agent, registered_at: this.nowISO(), status: agent.status || "active" }
Full(agent, now) ==
    [id |-> agent.id, name |-> agent.name, capabilities |-> agent.capabilities,
     registered_at |-> now,
     status |-> IF agent.status = "" THEN "active" ELSE agent.status]

\* getAgent: the parsed document, or null (<< >>) when cat throws
getAgent(store, id) ==
    IF AgentDoc(id) \in DOMAIN store THEN << parse(store[AgentDoc(id)]) >> ELSE << >>

\* capabilities compared as they are given
normCapsAsGiven(caps) == caps

\* [...new Set((caps ?? []).filter(Boolean))].sort(): the sorted list of the
\* distinct non-empty capabilities, which is determined by their set
normCaps(caps) == { caps[i] : i \in DOMAIN caps } \ { "" }

\* the test `same` of registerAgent
same(existing, full) ==
    /\ existing.id = full.id
    /\ existing.name = full.name
    /\ (IF existing.status = "" THEN "active" ELSE existing.status) = full.status
    /\ normCaps(existing.capabilities) = normCaps(full.capabilities)

\* the tags of the stored card
AgentTags(agent) ==
    << "agent", "inst" >>
        \o [i \in DOMAIN agent.capabilities |-> << "capability:", agent.capabilities[i] >>]

Calls == 1..MaxCalls

\* registerAgent(agent) is called: it builds the card and awaits getAgent
RegisterAgent(agent) ==
    /\ Len(regs) < MaxCalls
    /\ clock' = clock + 1
    /\ regs' = Append(regs, [agent |-> agent, full |-> Full(agent, clock + 1),
                             pc |-> "cat", existing |-> << >>, result |-> << >>,
                             wrote |-> FALSE,
                             alone |-> \A i \in DOMAIN regs : regs[i].pc = "done"])
    /\ UNCHANGED << connVars, socks, clientVars, lastRead, notified, lastDelay,
                    disconnectCalled, readerVars, wrapperVars, pathVars, docs, addCalls,
                    sideVars >>

\* the read returns: the call returns the stored card, or calls store()
CatReturns(i) ==
    /\ i \in DOMAIN regs
    /\ regs[i].pc = "cat"
    /\ \E existing \in {getAgent(docs, regs[i].agent.id)} :
           IF existing # << >> /\ same(existing[1], regs[i].full)
           THEN /\ regs' = [regs EXCEPT ![i].pc = "done", ![i].existing = existing,
                                        ![i].result = existing]
                /\ UNCHANGED addCalls
           ELSE /\ regs' = [regs EXCEPT ![i].pc = "add", ![i].existing = existing,
                                        ![i].wrote = TRUE]
                /\ addCalls' = Append(addCalls,
                                      [content |-> stringify(regs[i].full),
                                       name |-> AgentDoc(regs[i].agent.id),
                                       tags |-> AgentTags(regs[i].agent)])
    /\ UNCHANGED << connVars, socks, clientVars, lastRead, notified, lastDelay,
                    disconnectCalled, readerVars, wrapperVars, pathVars, docs, clock,
                    sideVars >>

\* the write is done and answered: the call returns the card it built
AddReturns(i) ==
    /\ i \in DOMAIN regs
    /\ regs[i].pc = "add"
    /\ docs' = MapSet(docs, AgentDoc(regs[i].agent.id), stringify(regs[i].full))
    /\ regs' = [regs EXCEPT ![i].pc = "done", ![i].result = << regs[i].full >>]
    /\ UNCHANGED << connVars, socks, clientVars, lastRead, notified, lastDelay,
                    disconnectCalled, readerVars, wrapperVars, pathVars, addCalls, clock,
                    sideVars >>

BlackboardNext ==
    \/ \E agent \in Agents : RegisterAgent(agent)
    \/ \E i \in Calls : CatReturns(i)
    \/ \E i \in Calls : AddReturns(i)

BlackboardSpec == Init /\ [][BlackboardNext]_vars

\* ------------------------------------------------------------------------
\* The connection manager on its own, constructed with any of the options
\* below; nothing is sent and nothing arrives.
\* ------------------------------------------------------------------------
MaxConnSockets == 3
ConnSockets == 1..MaxConnSockets
SmallMaxMs == 750
AttemptCaps == {0, 1, Infinity}
MaxDelays == {SmallMaxMs, ReconnectMaxMs}

ConnInit ==
    /\ Fresh
    /\ NoReader
    /\ NoWrapper
    /\ NoPath
    /\ NoBlackboard
    /\ NoTasks
    /\ NoExtension
    /\ socks = [s \in ConnSockets |-> "unused"]
    /\ maxReconnectAttempts \in AttemptCaps
    /\ reconnectMaxMs \in MaxDelays

ConnNext ==
    \/ Connect
    \/ \E s \in ConnSockets : SockConnect(s)
    \/ \E s \in ConnSockets : SockConnectError(s)
    \/ \E s \in ConnSockets : ConnectTimeout(s)
    \/ \E s \in ConnSockets : SockClose(s)
    \/ ReconnectTimer
    \/ OrphanTimer
    \/ Disconnect
    \/ Dispose

ConnSpec == ConnInit /\ [][ConnNext]_vars

\* ------------------------------------------------------------------------
\* A FrameReader on its own: a peer has encoded one or more frames, perhaps
\* after some garbage bytes; the bytes arrive in pieces of any size through
\* append(), and tryReadFrame() is called at any time.
\* ------------------------------------------------------------------------
MaxFrames == 2
MaxGarbage == 2
GarbageByte == 0
ReaderPayloads == { << >>, << 1, 2, 3, 4, 5 >> }
ReaderFlags == { U32(0), U32(FLAG_CHUNKED), AllOnes }
ReaderFrames == [payload : ReaderPayloads, flags : ReaderFlags]

RECURSIVE EncodeAll(_)
EncodeAll(frames) ==
    IF frames = << >> THEN << >>
    ELSE encodeFrame(frames[1].payload, frames[1].flags) \o EncodeAll(Tail(frames))

\* What the peer may do to the last frame once it is encoded: nothing, alter
\* the first payload byte, declare MAX_FRAME_SIZE + 1 bytes of payload, or
\* put VERSION + 1 in the version field.
Damages == { "none", "payload", "oversize", "version" }
Altered(payload) == << (payload[1] + 1) % 256 >> \o Tail(payload)
Damaged(frame, d) ==
    IF d = "payload"
    THEN SubSeq(encodeFrame(frame.payload, frame.flags), 1, HEADER_SIZE)
             \o Altered(frame.payload)
    ELSE IF d = "oversize"
    THEN encodeFrameHeader(U32(MAX_FRAME_SIZE + 1), crc32(frame.payload),
                           frame.flags) \o frame.payload
    ELSE IF d = "version"
    THEN SubSeq(encodeFrame(frame.payload, frame.flags), 1, 4)
             \o writeUInt32BE(U32(VERSION + 1))
             \o SubSeq(encodeFrame(frame.payload, frame.flags), 9,
                       HEADER_SIZE + Len(frame.payload))
    ELSE encodeFrame(frame.payload, frame.flags)
\* the frames of the stream that are encoded and left alone
Intact(frames, d) ==
    IF d = "none" THEN frames ELSE SubSeq(frames, 1, Len(frames) - 1)

ReaderInit ==
    /\ Fresh
    /\ autoReconnect
    /\ NoWrapper
    /\ NoPath
    /\ NoBlackboard
    /\ NoTasks
    /\ NoExtension
    /\ socks = [s \in Sockets |-> "unused"]
    /\ maxReconnectAttempts = Infinity
    /\ reconnectMaxMs = ReconnectMaxMs
    /\ sent \in UNION { [1..n -> ReaderFrames] : n \in 1..MaxFrames }
    /\ garbage \in 0..MaxGarbage
    /\ damage \in Damages
    /\ damage = "payload" => sent[Len(sent)].payload # << >>
    /\ stream = [i \in 1..garbage |-> GarbageByte]
                    \o EncodeAll(Intact(sent, damage))
                    \o (IF damage = "none" THEN << >>
                        ELSE Damaged(sent[Len(sent)], damage))
    /\ got = << >>
    /\ lastResult = "none"
    /\ lastError = ""

\* reader.append(data) with the next n bytes of the stream
ReaderAppend(n) ==
    /\ n \in 1..Len(stream)
    /\ buffer' = buffer \o SubSeq(stream, 1, n)
    /\ stream' = SubSeq(stream, n + 1, Len(stream))
    /\ lastResult' = "none"
    /\ UNCHANGED << connVars, socks, nextRequestId, pending, timers, settle, writes,
                    allocated, lastRead, notified, lastDelay, disconnectCalled,
                    sent, garbage, got, lastError, damage, restVars >>

\* reader.tryReadFrame()
ReaderTryRead ==
    /\ \E r \in {tryReadFrame(buffer, MAX_FRAME_SIZE)} :
           /\ buffer' = r.buffer
           /\ got' = IF r.kind = "frame"
                     THEN Append(got, [payload |-> r.payload,
                                       flags |-> r.header.flags])
                     ELSE got
           /\ lastResult' = r.kind
           /\ lastError' = IF r.kind = "throw" THEN r.message ELSE lastError
    /\ UNCHANGED << connVars, socks, nextRequestId, pending, timers, settle, writes,
                    allocated, lastRead, notified, lastDelay, disconnectCalled,
                    stream, sent, garbage, damage, restVars >>

\* reader.clear(), called by a driver that has caught a FramingError
ReaderClear ==
    /\ lastResult = "throw"
    /\ buffer' = << >>
    /\ lastResult' = "none"
    /\ UNCHANGED << connVars, socks, nextRequestId, pending, timers, settle, writes,
                    allocated, lastRead, notified, lastDelay, disconnectCalled,
                    stream, sent, garbage, got, lastError, damage, restVars >>

ReaderNext ==
    \/ \E n \in 1..MaxBuffer : ReaderAppend(n)
    \/ ReaderTryRead
    \/ ReaderClear

ReaderSpec == ReaderInit /\ [][ReaderNext]_vars

\* ------------------------------------------------------------------------
\* Properties
\* ------------------------------------------------------------------------
AllocatedIds == { allocated[i] : i \in DOMAIN allocated }
Kinds(id) == { settle[id][i].kind : i \in DOMAIN settle[id] }

\* C1: the future of every send() is settled exactly once: no request ever
\* receives two resolve/reject calls, and every allocated request is
\* eventually settled (its timer fires if nothing else settles it).
C1_SettledExactlyOnce ==
    /\ [](\A id \in Ids : Len(settle[id]) <= 1)
    /\ \A id \in Ids : (id \in AllocatedIds) ~> (Len(settle[id]) = 1)

\* one request settled by its timer, another by a response frame
C1_Witness ==
    /\ Kinds(1) = {"RequestTimeoutError"}
    /\ Kinds(2) = {"resolve"}

\* C2: responses are correlated by requestId only: whatever the arrival
\* order, a future is never resolved with the envelope of another request.
C2_CorrelatedById ==
    \A id \in Ids : \A i \in DOMAIN settle[id] :
        settle[id][i].kind = "resolve" => settle[id][i].rid = id

\* the response for id 2 has resolved request 2 while request 1 still waits
C2_Witness ==
    /\ 1 \in DOMAIN pending
    /\ settle[2] = << Resolved([requestId |-> 2, case |-> CaseResponse,
                                value |-> ValueOf(0)]) >>

\* C3: request ids start at 1 and are strictly increasing over all send()
\* calls, failed writes and reconnects included; an id is never handed out
\* twice, and every pending entry belongs to exactly one send().
C3_IdsIncrease ==
    /\ allocated # << >> => allocated[1] = 1
    /\ \A i, j \in DOMAIN allocated : i < j => allocated[i] < allocated[j]
    /\ \A i \in DOMAIN allocated : allocated[i] < nextRequestId
    /\ \A id \in DOMAIN pending :
           Cardinality({ i \in DOMAIN allocated : allocated[i] = id }) = 1

\* the first send failed at write, the second was written after a connect
C3_Witness ==
    /\ allocated = << 1, 2 >>
    /\ settle[1] = << PlainError("Socket not connected") >>
    /\ writes[1] = << >>
    /\ writes[2] # << >>
    /\ 2 \in DOMAIN pending

\* the state teardown with the given error must leave behind
Torn(message) ==
    /\ pending' = NoPending
    /\ timers' = {}
    /\ settle' = [id \in Ids |-> IF id \in DOMAIN pending
                                 THEN Append(settle[id], PlainError(message))
                                 ELSE settle[id]]

\* C4: global teardown is complete: a close of the connection, disconnect()
\* and dispose() each reject every pending request with their error, clear
\* every timer and leave the pending map empty.
C4_TeardownComplete ==
    [][/\ (\E s \in Sockets : SockClose(s)) => Torn("Connection closed")
       /\ Disconnect => Torn("Client disconnected")
       /\ Dispose => Torn("Client disposed")]_vars

\* C5: timeout isolation: the expiry of the timer of request id removes and
\* rejects exactly that request, with a timeout error carrying the id and
\* the duration; every other entry, timer and future is left as it was.
C5_TimeoutIsolation ==
    [][\A id \in Ids : Timeout(id) =>
          /\ settle' = [settle EXCEPT ![id] =
                           Append(@, RequestTimeoutError(id, RequestTimeoutMs))]
          /\ pending' = MapDelete(pending, id)
          /\ timers' = timers \ {id}]_vars

\* request 2 has timed out while request 1 is still pending with its timer
C5_Witness ==
    /\ settle[2] = << RequestTimeoutError(2, RequestTimeoutMs) >>
    /\ 1 \in DOMAIN pending
    /\ 1 \in timers
    /\ settle[1] = << >>

\* a decoded frame as handleFrame receives it
FrameOf(id, flags, case, value) ==
    [header |-> [NoHeader EXCEPT !.ok = TRUE, !.flags = U32(flags)],
     payload |-> toBinary([requestId |-> id, case |-> case, value |-> value])]
AllFlags == 0..15

\* C6: a frame for a pending request with the ERROR flag set or the error
\* payload case rejects the request with a DaemonError, clears its timer and
\* removes its entry, whatever its CHUNKED and LAST_CHUNK flags are; a
\* request rejected so is never resolved.
C6_ErrorRejects ==
    /\ \A id \in DOMAIN pending : \A flags \in AllFlags : \A case \in CaseCodes :
           (isError(U32(flags)) \/ case = CaseError) =>
               LET c == handleFrame(ClientState, FrameOf(id, flags, case, 3))
               IN  /\ c.settle = [settle EXCEPT ![id] =
                                     Append(@, DaemonError(IF case = CaseError
                                                           THEN 3 ELSE -1))]
                   /\ c.timers = timers \ {id}
                   /\ c.pending = MapDelete(pending, id)
    /\ \A id \in Ids : "DaemonError" \in Kinds(id) => Len(settle[id]) = 1

\* a frame with ERROR, CHUNKED and LAST_CHUNK has rejected request 1
C6_Witness ==
    /\ lastRead = << [tag |-> "error", rid |-> 1,
                      flags |-> FLAG_ERROR + FLAG_CHUNKED + FLAG_LAST_CHUNK] >>
    /\ settle[1] = << DaemonError(-1) >>
    /\ 1 \notin DOMAIN pending
    /\ 1 \notin timers

\* the frames the client cannot correlate in the current state
Uncorrelated ==
    { FrameOf(0, flags, 0, 0) : flags \in AllFlags }
        \cup { FrameOf(id, flags, case, 1) :
                 id \in Ids \ DOMAIN pending, flags \in AllFlags, case \in CaseCodes }
UncorrelatedChunks ==
    {UndecodableFrame}
        \cup { ResponseFrame(id, fc[1], fc[2]) : id \in Ids \ DOMAIN pending,
                                                 fc \in FlagCases }
SameClient(a, b) ==
    /\ a.pending = b.pending
    /\ a.timers = b.timers
    /\ a.settle = b.settle
    /\ a.buffer = b.buffer

\* C7: a frame that does not decode, or whose requestId has no pending
\* entry, is dropped silently: the pending map, the timers and the futures
\* are unchanged, and the frames that follow it in the same read are
\* dispatched as if it had not been there.
C7_DroppedSilently ==
    /\ \A frame \in Uncorrelated :
           SameClient(handleFrame(ClientState, frame), ClientState)
    /\ (pending # NoPending /\ buffer = << >>) =>
           \A bad \in UncorrelatedChunks : \A good \in PlainFrames :
               SameClient(onData(ClientState, bad \o good),
                          onData(ClientState, good))

\* one read held an undecodable frame and then the response of request 1;
\* request 2 is pending and untouched
C7_Witness ==
    /\ lastRead = << [tag |-> "nodecode", rid |-> 0, flags |-> 0],
                     [tag |-> "resolve", rid |-> 1, flags |-> 0] >>
    /\ Kinds(1) = {"resolve"}
    /\ 2 \in DOMAIN pending
    /\ 2 \in timers

\* C8: a frame with CHUNKED and LAST_CHUNK for a pending request resolves
\* it with the envelope decoded from that frame alone, whatever chunks were
\* accumulated before, clears its timer and removes its entry.
C8_LastChunkResolves ==
    \A id \in DOMAIN pending : \A value \in {5, 6} :
        \A flags \in {f \in AllFlags : isChunked(U32(f)) /\ isLastChunk(U32(f))
                                          /\ ~isError(U32(f))} :
            LET c == handleFrame(ClientState, FrameOf(id, flags, CaseResponse, value))
            IN  /\ c.settle = [settle EXCEPT ![id] =
                                  Append(@, Resolved([requestId |-> id,
                                                      case |-> CaseResponse,
                                                      value |-> value]))]
                /\ c.timers = timers \ {id}
                /\ c.pending = MapDelete(pending, id)

\* a chunk and then the last chunk of request 1 arrived; the answer is the
\* envelope of the last chunk
C8_Witness ==
    /\ lastRead = << [tag |-> "chunk", rid |-> 1, flags |-> FLAG_CHUNKED],
                     [tag |-> "lastchunk", rid |-> 1,
                      flags |-> FLAG_CHUNKED + FLAG_LAST_CHUNK] >>
    /\ settle[1] = << Resolved([requestId |-> 1, case |-> CaseResponse,
                                value |-> ValueOf(FLAG_CHUNKED + FLAG_LAST_CHUNK)]) >>
    /\ 1 \notin DOMAIN pending

\* C9: when write fails synchronously in send(), the future is rejected at
\* once with that error, and the pending map and the armed timers are what
\* they were before the call.
C9_WriteFailure ==
    [][(Send /\ ~writeOk(ConnState)) =>
          /\ settle' = [settle EXCEPT ![nextRequestId] =
                           << PlainError("Socket not connected") >>]
          /\ pending' = pending
          /\ timers' = timers
          /\ writes' = writes]_vars

\* request 2 failed at write while the client was not connected
C9_Witness ==
    /\ settle[2] = << PlainError("Socket not connected") >>
    /\ writes[2] = << >>
    /\ writes[1] # << >>
    /\ ~connected

\* C10: no request is retried: its frame is handed to write at most once,
\* and once a request is settled it is neither written again nor settled
\* again, on this connection or a later one.
C10_NeverRetried ==
    [][\A id \in Ids :
          /\ Len(writes'[id]) <= 1
          /\ settle[id] # << >> =>
                 (writes'[id] = writes[id] /\ settle'[id] = settle[id])]_vars

\* request 1 was written to the first connection and rejected at its close;
\* its late response has just arrived on the second connection and was dropped
C10_Witness ==
    /\ writes[1] = << 1 >>
    /\ settle[1] = << PlainError("Connection closed") >>
    /\ socks[1] = "closed"
    /\ socks[2] = "open"
    /\ lastRead = << [tag |-> "nomatch", rid |-> 1, flags |-> 0] >>

\* C11: write succeeds only while the manager is Connected; in every other
\* state, after disconnect() and after dispose() included, it fails at once,
\* and bytes are handed to a stream by the write call alone, never later.
C11_WriteOnlyConnected ==
    [][/\ Send => /\ (writes' # writes) <=> connected
                  /\ (disposed \/ disconnectCalled) => writes' = writes
       /\ writes' # writes => Send]_vars

\* some step starts a connect attempt
AttemptStarts == \E s \in DOMAIN socks : socks[s] = "unused" /\ socks'[s] = "connecting"

\* some step arms a reconnect timer
TimerArmed ==
    \/ reconnectTimer = "null" /\ reconnectTimer' = "armed"
    \/ orphanTimers' > orphanTimers

\* C12: dispose() is permanent: it disconnects and marks the manager
\* Disposed, and in every later state connect() fails at once, no attempt is
\* started, no reconnect is scheduled and no notification is emitted.
C12_DisposePermanent ==
    [][/\ Dispose => (disposed' /\ ~connected' /\ socket' = 0)
       /\ disposed => /\ disposed'
                      /\ connectResult(ConnState) = "rejected"
                      /\ ~AttemptStarts
                      /\ ~TimerArmed
                      /\ reconnectAttempt' <= reconnectAttempt
                      /\ notified' = << >>]_vars

\* C13: disconnect() cancels every scheduled reconnect, closes the stream
\* and leaves the manager Disconnected; from then until the caller calls
\* connect() again no reconnecting notification is emitted, no reconnect is
\* scheduled and no connect attempt is started, with autoReconnect enabled too.
C13_DisconnectQuiet ==
    [][/\ Disconnect => /\ reconnectTimer' = "null"
                        /\ orphanTimers' = 0
                        /\ ~connected'
                        /\ socket' = 0
                        /\ socket # 0 => socks'[socket] = "closed"
       /\ (disconnectCalled /\ disconnectCalled') =>
              /\ notified' = << >>
              /\ ~TimerArmed
              /\ ~AttemptStarts]_vars

\* the reconnect timers that are armed
ArmedTimers == orphanTimers + (IF reconnectTimer = "armed" THEN 1 ELSE 0)

\* a close of a wired stream while the manager is Connected and not disposed
UnexpectedClose == connected /\ ~disposed /\ \E s \in DOMAIN socks : SockClose(s)

\* the close counts an attempt, notifies it with its delay and arms one timer
RetryScheduled ==
    /\ reconnectAttempt' = reconnectAttempt + 1
    /\ notified' = << [attempt |-> reconnectAttempt',
                       delay |-> Min(ReconnectBaseMs * 2^(reconnectAttempt' - 1),
                                     reconnectMaxMs)] >>
    /\ reconnectTimer' = "armed"
    /\ ArmedTimers' = ArmedTimers + 1

NothingScheduled ==
    /\ reconnectAttempt' = reconnectAttempt
    /\ notified' = << >>
    /\ ArmedTimers' = ArmedTimers

\* the timer that is scheduled makes one connect() call when it fires
RetryConnects ==
    (ReconnectTimer /\ ~disposed /\ ~connected) =>
        (AttemptStarts /\ ArmedTimers' = ArmedTimers - 1)

\* C14 as stated: an unexpected close while Connected, with auto-reconnect
\* enabled and the manager not disposed, always counts an attempt, emits the
\* notification with that attempt and delay = min(base * 2^(attempt-1), max)
\* and schedules one connect() retry; with auto-reconnect disabled it
\* schedules and notifies nothing.
C14_AsStated ==
    [][/\ UnexpectedClose => IF autoReconnect THEN RetryScheduled
                                              ELSE NothingScheduled
       /\ RetryConnects]_vars

\* C14: the same for a manager whose attempt counter is below the cap
\* maxReconnectAttempts.
C14_ReconnectScheduled ==
    [][/\ (UnexpectedClose /\ reconnectAttempt < maxReconnectAttempts) =>
              IF autoReconnect THEN RetryScheduled ELSE NothingScheduled
       /\ RetryConnects]_vars

\* the first connection has dropped: attempt 1 is notified with the base delay
C14_Witness ==
    /\ autoReconnect
    /\ socks[1] = "closed"
    /\ reconnectAttempt = 1
    /\ notified = << [attempt |-> 1, delay |-> ReconnectBaseMs] >>
    /\ reconnectTimer = "armed"
    /\ ~connected

\* the delay of the reconnect scheduled before, since the last connection
PreviousDelay ==
    IF reconnectAttempt = 0 THEN 0
    ELSE Min(ReconnectBaseMs * 2^(reconnectAttempt - 1), reconnectMaxMs)

C16_AttemptCap ==
    [][/\ reconnectAttempt' <= maxReconnectAttempts
       /\ reconnectAttempt >= maxReconnectAttempts =>
              (notified' = << >> /\ ArmedTimers' <= ArmedTimers)]_vars

\* with a cap of 1, two wired streams have closed: one retry is scheduled
C16_Witness ==
    /\ autoReconnect
    /\ maxReconnectAttempts = 1
    /\ reconnectAttempt = 1
    /\ socks[1] = "closed"
    /\ socks[2] = "closed"
    /\ socks[3] = "unused"
    /\ ArmedTimers = 1
    /\ notified = << >>
    /\ ~disposed
    /\ ~disconnectCalled

C18_ConnectNoOp ==
    [][connected => /\ connectResult(ConnState) = "resolved"
                    /\ Connect => UNCHANGED << connVars, socks >>]_vars

\* connected through the first stream, and no second stream was ever opened
C18_Witness ==
    /\ connected
    /\ socket = 1
    /\ socks[1] = "open"
    /\ socks[2] = "unused"
    /\ ~disconnectCalled

\* the encoded frames the reader has not returned yet
NotYetRead == SubSeq(sent, Len(got) + 1, Len(sent))
FrontFrame == encodeFrame(sent[Len(got) + 1].payload, sent[Len(got) + 1].flags)

\* C19: chunking independence: for valid frames delivered in any split,
\* tryReadFrame returns nothing and consumes nothing while the front frame is
\* incomplete, returns the front frame with its payload once it is complete,
\* so the frames returned are the frames encoded, in order, and the buffer
\* is empty once the last one has been read.
C19_ChunkingIndependence ==
    (garbage = 0 /\ damage = "none") =>
        /\ Len(got) <= Len(sent)
        /\ \A i \in DOMAIN got : got[i] = sent[i]
        /\ buffer \o stream = EncodeAll(NotYetRead)
        /\ lastResult # "throw"
        /\ Len(got) < Len(sent) =>
               LET r == tryReadFrame(buffer, MAX_FRAME_SIZE)
               IN  IF Len(buffer) < Len(FrontFrame)
                   THEN r.kind = "null" /\ r.buffer = buffer
                   ELSE /\ r.kind = "frame"
                        /\ r.payload = sent[Len(got) + 1].payload
                        /\ r.header.flags = sent[Len(got) + 1].flags
                        /\ r.buffer = SubSeq(buffer, Len(FrontFrame) + 1, Len(buffer))
        /\ (Len(got) = Len(sent) /\ stream = << >>) => buffer = << >>

\* the first frame was returned, the first 7 bytes of the second frame (with
\* a 5-byte payload) are buffered and a read has returned nothing
C19_Witness ==
    /\ garbage = 0
    /\ damage = "none"
    /\ Len(sent) = 2
    /\ sent[2].payload = << 1, 2, 3, 4, 5 >>
    /\ got = << sent[1] >>
    /\ Len(buffer) = SplitAt
    /\ lastResult = "null"

\* C20: a loop of tryReadFrame calls that stops at the first 'no frame yet'
\* drains the reader: when a call has returned nothing and nothing was
\* appended since, no complete frame remains in the buffer; the frames come
\* out in arrival order.
C20_LoopDrains ==
    /\ \A i \in DOMAIN got : i <= Len(sent) /\ got[i] = sent[i]
    /\ lastResult = "null" => tryReadFrame(buffer, MAX_FRAME_SIZE).kind # "frame"

\* the garbage bytes still ahead of the frames (stream lengths are those of
\* the undamaged encoding)
GarbageLeft == Len(buffer) + Len(stream) - Len(EncodeAll(NotYetRead))

\* C21: resynchronisation: with at least HEADER_SIZE bytes buffered and a
\* front that does not decode as a header, one tryReadFrame call returns
\* nothing and drops exactly the first byte; while garbage bytes are ahead
\* of a valid frame every such call drops one of them, and once they are
\* gone the frame is returned with its payload intact.
C21_Resync ==
    LET r == tryReadFrame(buffer, MAX_FRAME_SIZE)
    IN  /\ (Len(buffer) >= HEADER_SIZE /\ ~decodeFrameHeader(buffer).ok) =>
               /\ r.kind = "null"
               /\ r.buffer = Tail(buffer)
        /\ damage = "none" =>
               /\ GarbageLeft \in 0..garbage
               /\ GarbageLeft > 0 => got = << >>
               /\ buffer \o stream =
                      [i \in 1..GarbageLeft |-> GarbageByte] \o EncodeAll(NotYetRead)
               /\ (GarbageLeft > 0 /\ Len(buffer) >= HEADER_SIZE) =>
                      ~decodeFrameHeader(buffer).ok
               /\ \A i \in DOMAIN got : i <= Len(sent) /\ got[i] = sent[i]
               /\ lastResult # "throw"
               /\ (GarbageLeft = 0 /\ Len(got) < Len(sent)
                       /\ Len(buffer) >= Len(FrontFrame)) =>
                      /\ r.kind = "frame"
                      /\ r.payload = sent[Len(got) + 1].payload
                      /\ r.header.flags = sent[Len(got) + 1].flags

\* two garbage bytes were dropped and the frame behind them, with its 5-byte
\* payload, has just been returned
C21_Witness ==
    /\ garbage = MaxGarbage
    /\ damage = "none"
    /\ sent[1].payload = << 1, 2, 3, 4, 5 >>
    /\ got = << sent[1] >>
    /\ lastResult = "frame"

\* C22: corruption detection: tryReadFrame never returns a frame whose
\* payload checksum differs from the header's checksum, the frames returned
\* are frames as they were encoded, and a complete frame whose payload was
\* altered after encoding makes tryReadFrame throw the CRC32-mismatch
\* FramingError.
C22_CorruptionDetected ==
    LET r == tryReadFrame(buffer, MAX_FRAME_SIZE)
    IN  /\ r.kind = "frame" => crc32(r.payload) = r.header.checksum
        /\ \A i \in DOMAIN got :
               i <= Len(Intact(sent, damage)) /\ got[i] = sent[i]
        /\ (damage = "payload" /\ Len(got) = Len(sent) - 1
                /\ decodeFrameHeader(buffer).ok /\ Len(buffer) >= Len(FrontFrame)) =>
               /\ r.kind = "throw"
               /\ r.message = Crc32Mismatch
        /\ lastError = Crc32Mismatch => damage = "payload"

\* the first frame was returned and the read of the altered second frame
\* has thrown the CRC32 mismatch
C22_Witness ==
    /\ damage = "payload"
    /\ Len(sent) = 2
    /\ got = << sent[1] >>
    /\ lastResult = "throw"
    /\ lastError = Crc32Mismatch

\* C23: oversize rejection: when the buffered front is a header with valid
\* magic and version that declares more payload than the reader's maximum,
\* tryReadFrame throws the frame-too-large FramingError as soon as the
\* HEADER_SIZE header bytes are buffered: it neither waits for payload bytes
\* nor drops a byte.
C23_OversizeRejected ==
    LET r == tryReadFrame(buffer, MAX_FRAME_SIZE)
        h == decodeFrameHeader(buffer)
    IN  /\ (h.ok /\ U32Gt(h.payloadSize, U32(MAX_FRAME_SIZE))) =>
               /\ r.kind = "throw"
               /\ r.message = FrameTooLarge
               /\ r.buffer = buffer
        /\ (damage = "oversize" /\ Len(got) = Len(sent) - 1 /\ h.ok) =>
               U32ToNat(h.payloadSize) = MAX_FRAME_SIZE + 1
        /\ lastError = FrameTooLarge => damage = "oversize"

\* exactly the header of the oversize frame is buffered, its payload bytes
\* are still to come, and the read has thrown
C23_Witness ==
    /\ damage = "oversize"
    /\ Len(buffer) = HEADER_SIZE
    /\ stream # << >>
    /\ lastResult = "throw"
    /\ lastError = FrameTooLarge

\* C24: header round trip: for a payload P and 32-bit flags F,
\* decodeFrameHeader(encodeFrameHeader(len(P), crc32(P), F)) returns
\* payloadSize = len(P), checksum = crc32(P), flags = F, magic = MAGIC and
\* version = VERSION, the first HEADER_SIZE bytes of encodeFrame(P, F) decode
\* to the same header, and so does the header of a frame the reader returns.
C24_HeaderRoundTrip ==
    /\ \A i \in DOMAIN sent :
           LET P == sent[i].payload
               F == sent[i].flags
               h == decodeFrameHeader(encodeFrameHeader(U32(Len(P)), crc32(P), F))
               g == decodeFrameHeader(SubSeq(encodeFrame(P, F), 1, HEADER_SIZE))
           IN  /\ h.ok
               /\ h.payloadSize = U32(Len(P))
               /\ h.checksum = crc32(P)
               /\ h.flags = F
               /\ h.magic = U32(MAGIC)
               /\ h.version = U32(VERSION)
               /\ g = h
    /\ lastResult = "frame" =>
           /\ got # << >>
           /\ got[Len(got)].flags = sent[Len(got)].flags
           /\ got[Len(got)].payload = sent[Len(got)].payload

\* a frame with all 32 flag bits set and a 5-byte payload went through
\* encodeFrame and came back from the reader's header decode
C24_Witness ==
    /\ garbage = 0
    /\ sent[1].flags = AllOnes
    /\ sent[1].payload = << 1, 2, 3, 4, 5 >>
    /\ got = << sent[1] >>
    /\ lastResult = "frame"

\* the bytes of MAGIC ("YAMS") and of VERSION on the wire
MagicBytes == << 89, 65, 77, 83 >>
VersionBytes == << 0, 0, 0, 1 >>

\* C25: decodeFrameHeader fails exactly when fewer than HEADER_SIZE bytes
\* are supplied, or the magic differs, or the version differs; for every
\* other input it returns the five fields read big-endian in the order
\* magic, version, payloadSize, checksum, flags.
C25_DecodeHeader ==
    LET h == decodeFrameHeader(buffer)
    IN  /\ ~h.ok <=> \/ Len(buffer) < HEADER_SIZE
                     \/ SubSeq(buffer, 1, 4) # MagicBytes
                     \/ SubSeq(buffer, 5, 8) # VersionBytes
        /\ h.ok =>
               /\ writeUInt32BE(h.magic) = SubSeq(buffer, 1, 4)
               /\ writeUInt32BE(h.version) = SubSeq(buffer, 5, 8)
               /\ writeUInt32BE(h.payloadSize) = SubSeq(buffer, 9, 12)
               /\ writeUInt32BE(h.checksum) = SubSeq(buffer, 13, 16)
               /\ writeUInt32BE(h.flags) = SubSeq(buffer, 17, 20)
               /\ h.magic = U32(MAGIC)
               /\ h.version = U32(VERSION)

\* a header with the right magic and version + 1 is at the front of the
\* buffer and the read that decoded it has returned nothing
C25_Witness ==
    /\ damage = "version"
    /\ garbage = 0
    /\ got = << >>
    /\ Len(sent) = 1
    /\ Len(buffer) + Len(stream) = HEADER_SIZE + Len(sent[1].payload) - 1
    /\ lastResult = "null"

Material(card) ==
    [id |-> card.id, name |-> card.name, status |-> card.status,
     capabilities |-> { card.capabilities[i] : i \in DOMAIN card.capabilities }]

\* C28: registerAgent is idempotent: a registration whose read returns a
\* stored card with the same id, name, status and set of capabilities makes
\* no store call and returns the stored card; so registrations of such
\* agents made one after the other make exactly one store call.
C28_RegisterIdempotent ==
    /\ \A i \in DOMAIN regs :
           (regs[i].pc # "cat" /\ regs[i].existing # << >>
                /\ Material(regs[i].existing[1]) = Material(regs[i].full)) =>
               /\ regs[i].pc = "done"
               /\ regs[i].result = regs[i].existing
               /\ ~regs[i].wrote
    /\ Len(addCalls) = Cardinality({ i \in DOMAIN regs : regs[i].wrote })
    /\ (/\ regs # << >>
        /\ regs[1].pc = "done"
        /\ \A i \in DOMAIN regs :
               regs[i].alone /\ Material(regs[i].full) = Material(regs[1].full)) =>
           /\ Len(addCalls) = 1
           /\ getAgent(docs, AgentId) = << regs[1].full >>

\* the same agent was registered again with its capabilities reordered and
\* repeated: the second call returned the card stored by the first and one
\* store call was made
C28_Witness ==
    /\ Len(regs) = 2
    /\ regs[1].agent.capabilities = << "yams", "search" >>
    /\ regs[2].agent.capabilities = << "search", "yams", "yams" >>
    /\ regs[2].alone
    /\ regs[2].pc = "done"
    /\ regs[2].result = << regs[1].full >>
    /\ Len(addCalls) = 1

\* C29: a frame with CHUNKED set and LAST_CHUNK clear, without the ERROR
\* flag or the error case, for a pending request appends its raw payload to
\* the chunks accumulated and changes nothing else: the future stays
\* unsettled, the entry stays in the pending map and the timer armed by
\* send() stays armed (the guard of Timeout), so the request can still time
\* out between chunks.
C29_ChunkAccumulates ==
    \A id \in DOMAIN pending :
        /\ id \in timers
        /\ settle[id] = << >>
        /\ \A value \in {5, 6} : \A case \in CaseCodes \ {CaseError} :
           \A flags \in {f \in AllFlags : isChunked(U32(f)) /\ ~isLastChunk(U32(f))
                                             /\ ~isError(U32(f))} :
               LET frame == FrameOf(id, flags, case, value)
                   c == handleFrame(ClientState, frame)
               IN  /\ c.pending =
                          [pending EXCEPT ![id].chunks = Append(@, frame.payload)]
                   /\ c.timers = timers
                   /\ c.settle = settle
                   /\ c.buffer = buffer

\* a chunk of request 1 was read and accumulated: the request is pending,
\* unsettled, and its timer is armed
C29_Witness ==
    /\ lastRead = << [tag |-> "chunk", rid |-> 1, flags |-> FLAG_CHUNKED] >>
    /\ 1 \in DOMAIN pending
    /\ pending[1].chunks = << toBinary([requestId |-> 1, case |-> CaseResponse,
                                        value |-> ValueOf(FLAG_CHUNKED)]) >>
    /\ settle[1] = << >>
    /\ 1 \in timers

\* C30: every successful connect(), called explicitly or by the reconnect
\* timer, sets the manager Connected with the new stream as its stream,
\* resets the attempt counter to zero and wires the stream (its data, close
\* and error events are delivered from then on); the counter changes only
\* by such a reset or by a scheduled reconnect, so the first reconnect
\* scheduled after a successful connection has attempt 1 and the base delay.
C30_ConnectResets ==
    [][/\ \A s \in DOMAIN socks :
              SockConnect(s) =>
                  /\ connected'
                  /\ socket' = s
                  /\ reconnectAttempt' = 0
                  /\ socks'[s] = "open"
       /\ reconnectAttempt' # reconnectAttempt =>
              \/ reconnectAttempt' = 0 /\ \E s \in DOMAIN socks : SockConnect(s)
              \/ notified' # << >>
       /\ (reconnectAttempt = 0 /\ notified' # << >>) =>
              notified' = << [attempt |-> 1, delay |-> ReconnectBaseMs] >>
      ]_vars

\* after a reconnect was scheduled for the closed stream 1, stream 2 was
\* established: the manager is Connected on it and the counter is 0 again
C30_Witness ==
    /\ socks[1] = "closed"
    /\ socks[2] = "open"
    /\ connected
    /\ socket = 2
    /\ reconnectAttempt = 0
    /\ lastDelay = ReconnectBaseMs
    /\ reconnectTimer = "null"
    /\ ~disconnectCalled

\* the streams that are open and wired to the manager
OpenStreams == {s \in DOMAIN socks : socks[s] = "open"}

\* the connect attempts that have not completed
AttemptsInFlight == {s \in DOMAIN socks : socks[s] = "connecting"}

\* C31: with auto-reconnect enabled, the manager not disposed and the attempt
\* cap not reached, the manager keeps retrying after an unexpected close until
\* an attempt succeeds: while it is not connected and a reconnect has been
\* counted, a reconnect timer is armed or a connect attempt is in flight.
C31_KeepsRetrying ==
    (/\ autoReconnect
     /\ ~disposed
     /\ ~disconnectCalled
     /\ ~connected
     /\ reconnectAttempt > 0
     /\ reconnectAttempt < maxReconnectAttempts)
        => (ArmedTimers > 0 \/ AttemptsInFlight # {})

\* C33: at most one open stream is wired to the manager at any time, and a
\* close of one stream never marks the manager disconnected while another of
\* its streams is still open.
C33_OneStream ==
    [][/\ Cardinality(OpenStreams') <= 1
       /\ \A s \in DOMAIN socks :
             (SockClose(s) /\ OpenStreams \ {s} # {}) => connected' = connected]_vars

\* C34: explicit teardown wins over a connect attempt in flight: after
\* dispose() the connected flag is false in every later state, and after
\* disconnect() it stays false until the caller calls connect() again.
C34_TeardownWins ==
    /\ disposed => ~connected
    /\ disconnectCalled => ~connected

\* C38: at most one reconnect timer is armed at any time, and disconnect()
\* leaves no reconnect timer armed.
C38_OneReconnectTimer ==
    [][/\ ArmedTimers' <= 1
       /\ Disconnect => ArmedTimers' = 0]_vars

\* ------------------------------------------------------------------------
\* The extension entry point: activate() connects once, then a poll tick
\* every 5 s calls ensureConnected and startSessionOnce.  Its client is
\* constructed with autoReconnect, so the connection manager reconnects on
\* its own between two ticks.  The useSession request of startSession is
\* kept as the stream it was written to until it is answered or rejected.
\* ------------------------------------------------------------------------
MaxExtSockets == 3
MaxSessionCalls == 2
ExtSockets == 1..MaxExtSockets

ExtInit ==
    /\ Fresh
    /\ autoReconnect
    /\ NoReader
    /\ NoWrapper
    /\ NoPath
    /\ NoBlackboard
    /\ NoTasks
    /\ socks = [s \in ExtSockets |-> "unused"]
    /\ maxReconnectAttempts = Infinity
    /\ reconnectMaxMs = ReconnectMaxMs
    /\ phase = "start"
    /\ connectInFlight = FALSE
    /\ awaited = 0
    /\ sessionStarted = FALSE
    /\ sessionPending = {}
    /\ sessionCalls = [s \in ExtSockets |-> 0]
    /\ sessionFailures = [s \in ExtSockets |-> 0]

\* the session state of the extension, as the handlers below transform it
SessionState ==
    [sessionStarted |-> sessionStarted, sessionPending |-> sessionPending,
     sessionCalls |-> sessionCalls, sessionFailures |-> sessionFailures]

SessionBecomes(after) ==
    \E e \in {after} :
        /\ sessionStarted' = e.sessionStarted
        /\ sessionPending' = e.sessionPending
        /\ sessionCalls' = e.sessionCalls
        /\ sessionFailures' = e.sessionFailures

\* startSessionOnce(): unless not connected or already started, set the flag
\* and call bb.startSession, which sends useSession on the client's stream
startSessionOnce(e, k) ==
    IF ~k.connected \/ e.sessionStarted
    THEN e
    ELSE [e EXCEPT !.sessionStarted = TRUE,
                   !.sessionPending = @ \cup {k.socket},
                   !.sessionCalls[k.socket] = @ + 1]

\* the catch of startSession for the request written to stream s
sessionFailed(e, s) ==
    [e EXCEPT !.sessionStarted = FALSE,
              !.sessionPending = @ \ {s},
              !.sessionFailures[s] = @ + 1]

\* rejectAll of the client rejects every useSession request not yet answered
RECURSIVE sessionsRejected(_)
sessionsRejected(e) ==
    IF e.sessionPending = {}
    THEN e
    ELSE sessionsRejected(sessionFailed(e, CHOOSE s \in e.sessionPending : TRUE))

\* what a step of the extension leaves alone
ExtFrame ==
    /\ lastRead' = << >>
    /\ UNCHANGED << clientVars, disconnectCalled, readerVars, wrapperVars,
                    pathVars, blackboardVars, taskVars, bufferFrom >>

\* step 4 of activate(): the socket file exists, await client.connect()
ActivateConnect ==
    /\ phase = "start"
    /\ connectOpens(ConnState)
    /\ HasFreeSocket
    /\ socks' = [socks EXCEPT ![FreeSocket] = "connecting"]
    /\ awaited' = FreeSocket
    /\ phase' = "connecting"
    /\ notified' = << >>
    /\ ExtFrame
    /\ UNCHANGED << connVars, lastDelay, connectInFlight, sessionStarted,
                    sessionPending, sessionCalls, sessionFailures >>

\* step 4 of activate(): no socket file, nothing is awaited
ActivateNoSocket ==
    /\ phase = "start"
    /\ phase' = "ready"
    /\ notified' = << >>
    /\ ExtFrame
    /\ UNCHANGED << connVars, socks, lastDelay, connectInFlight, awaited,
                    sessionStarted, sessionPending, sessionCalls, sessionFailures >>

\* the promise of the awaited connect() settles: activate() goes on, or the
\* finally of ensureConnected clears its flag
Settled(s) ==
    IF awaited = s
    THEN /\ awaited' = 0
         /\ connectInFlight' = FALSE
         /\ phase' = IF phase = "connecting" THEN "ready" ELSE phase
    ELSE UNCHANGED << awaited, connectInFlight, phase >>

\* the stream of a connect() attempt is established
ExtSockConnect(s) ==
    /\ socks[s] = "connecting"
    /\ socks' = [socks EXCEPT ![s] = "open"]
    /\ ConnBecomes(onSockConnect(ConnState, s))
    /\ Settled(s)
    /\ ExtFrame
    /\ UNCHANGED << sessionStarted, sessionPending, sessionCalls, sessionFailures >>

\* the stream of a connect() attempt fails or its connect timeout expires
ExtSockConnectError(s) ==
    /\ socks[s] = "connecting"
    /\ socks' = [socks EXCEPT ![s] = "closed"]
    /\ ConnBecomes(onSockError(ConnState))
    /\ Settled(s)
    /\ ExtFrame
    /\ UNCHANGED << sessionStarted, sessionPending, sessionCalls, sessionFailures >>

\* step 9 of activate(): the first startSessionOnce(), then the poll is set
ActivateSession ==
    /\ phase = "ready"
    /\ phase' = "polling"
    /\ SessionBecomes(startSessionOnce(SessionState, ConnState))
    /\ notified' = << >>
    /\ ExtFrame
    /\ UNCHANGED << connVars, socks, lastDelay, connectInFlight, awaited >>

\* a tick of the poll interval: ensureConnected(), then the session
PollTick(exists) ==
    /\ phase = "polling"
    /\ IF ~connected /\ ~connectInFlight /\ exists /\ connectOpens(ConnState)
       THEN /\ HasFreeSocket
            /\ socks' = [socks EXCEPT ![FreeSocket] = "connecting"]
            /\ connectInFlight' = TRUE
            /\ awaited' = FreeSocket
       ELSE UNCHANGED << socks, awaited, connectInFlight >>
    /\ IF ~connected
       THEN SessionBecomes([SessionState EXCEPT !.sessionStarted = FALSE])
       ELSE /\ sessionStarted \/ sessionCalls[socket] < MaxSessionCalls
            /\ SessionBecomes(startSessionOnce(SessionState, ConnState))
    /\ notified' = << >>
    /\ ExtFrame
    /\ UNCHANGED << connVars, lastDelay, phase >>

\* a wired stream closes: the close handler of wireEvents, emit("close") ->
\* onClose -> rejectAll
ExtSockClose(s) ==
    /\ socks[s] = "open"
    /\ socks' = [socks EXCEPT ![s] = "closed"]
    /\ ConnBecomes(onSockClose(ConnState))
    /\ SessionBecomes(IF listeners THEN sessionsRejected(SessionState) ELSE SessionState)
    /\ ExtFrame
    /\ UNCHANGED << phase, connectInFlight, awaited >>

\* a reconnect timer fires: the callback of scheduleReconnect
ExtReconnectFires(k) ==
    /\ IF ~(k.disposed \/ k.connected) /\ connectOpens(k)
       THEN /\ HasFreeSocket
            /\ socks' = [socks EXCEPT ![FreeSocket] = "connecting"]
       ELSE UNCHANGED socks
    /\ ConnBecomes(k)
    /\ ExtFrame
    /\ UNCHANGED extVars

ExtReconnectTimer ==
    /\ reconnectTimer = "armed"
    /\ ExtReconnectFires([ConnState EXCEPT !.reconnectTimer = "null"])

ExtOrphanTimer ==
    /\ orphanTimers > 0
    /\ ExtReconnectFires([ConnState EXCEPT !.orphanTimers = @ - 1])

\* the daemon answers the useSession request written to stream s
SessionOk(s) ==
    /\ s \in sessionPending
    /\ socks[s] = "open"
    /\ listeners
    /\ SessionBecomes([SessionState EXCEPT !.sessionPending = @ \ {s}])
    /\ notified' = << >>
    /\ ExtFrame
    /\ UNCHANGED << connVars, socks, lastDelay, phase, connectInFlight, awaited >>

\* the useSession request written to stream s is answered with an error or
\* times out: the catch of startSessionOnce
SessionFails(s) ==
    /\ s \in sessionPending
    /\ SessionBecomes(sessionFailed(SessionState, s))
    /\ notified' = << >>
    /\ ExtFrame
    /\ UNCHANGED << connVars, socks, lastDelay, phase, connectInFlight, awaited >>

\* the subscriptions are disposed: clearInterval(poll), client.dispose()
Deactivate ==
    /\ phase = "polling"
    /\ phase' = "deactivated"
    /\ ConnBecomes(dispose(ConnState))
    /\ socks' = [s \in DOMAIN socks |-> IF s = socket THEN "closed" ELSE socks[s]]
    /\ SessionBecomes(sessionsRejected(SessionState))
    /\ lastRead' = << >>
    /\ disconnectCalled' = TRUE
    /\ UNCHANGED << clientVars, readerVars, wrapperVars, pathVars,
                    blackboardVars, taskVars, bufferFrom, connectInFlight, awaited >>

ExtNext ==
    \/ ActivateConnect
    \/ ActivateNoSocket
    \/ ActivateSession
    \/ \E exists \in BOOLEAN : PollTick(exists)
    \/ \E s \in ExtSockets : ExtSockConnect(s)
    \/ \E s \in ExtSockets : ExtSockConnectError(s)
    \/ \E s \in ExtSockets : ExtSockClose(s)
    \/ ExtReconnectTimer
    \/ ExtOrphanTimer
    \/ \E s \in ExtSockets : SessionOk(s)
    \/ \E s \in ExtSockets : SessionFails(s)
    \/ Deactivate

ExtSpec == ExtInit /\ [][ExtNext]_vars

\* C32: the extension starts the session exactly once per successful
\* connection: a stream gets a further startSession call only after one made
\* on it has failed, and the flag that stops the poll ticks from starting a
\* session is set, with no startSession call in flight, only when a session
\* has been started on the stream the client holds.
C32_SessionPerConnection ==
    /\ \A s \in ExtSockets : sessionCalls[s] <= sessionFailures[s] + 1
    /\ (phase = "polling" /\ connected /\ sessionStarted /\ sessionPending = {})
           => sessionCalls[socket] >= 1

\* C35: bytes the client's reader buffered from one connection never affect
\* the parsing of a later one: when the reader holds bytes of a stream that
\* has closed and another stream delivers a valid frame answering a pending
\* request, that frame is returned by the reader and resolves its request.
C35_FreshParse ==
    [][\A s \in Sockets, id \in Ids :
          (/\ SockData(s, ResponseFrame(id, 0, CaseResponse))
           /\ listeners
           /\ id \in DOMAIN pending
           /\ bufferFrom \notin {0, s}
           /\ socks[bufferFrom] = "closed")
              => /\ lastRead' = << [tag |-> "resolve", rid |-> id, flags |-> 0] >>
                 /\ id \notin DOMAIN pending'
                 /\ buffer' = << >>]_vars

\* the reader raises a fatal FramingError on the buffer it holds
Fatal(buf) == tryReadFrame(buf, MAX_FRAME_SIZE).kind = "throw"

\* C36: a fatal FramingError leaves the reader's buffer unchanged: from then
\* on every tryReadFrame raises the same error and returns no frame, whatever
\* is appended, until clear() is called; the frames returned before stay
\* returned, and the loop of onData has dispatched the frame in front of the
\* offending one before the error is raised.
C36_FatalSticks ==
    [][/\ (Fatal(buffer) /\ ~ReaderClear) =>
              /\ Fatal(buffer')
              /\ tryReadFrame(buffer', MAX_FRAME_SIZE).message
                     = tryReadFrame(buffer, MAX_FRAME_SIZE).message
              /\ got' = got
              /\ ReaderTryRead => /\ buffer' = buffer
                                  /\ lastResult' = "throw"
                                  /\ lastError' = tryReadFrame(buffer, MAX_FRAME_SIZE).message
       /\ ReaderClear => (buffer' = << >> /\ ~Fatal(buffer') /\ got' = got)
       /\ \A r \in {tryReadFrame(buffer', MAX_FRAME_SIZE)} :
             (r.kind = "frame" /\ Fatal(r.buffer)) =>
                 \E c \in {Drain([ClientState EXCEPT !.buffer = buffer'])} :
                     /\ Len(c.log) = 2
                     /\ c.log[1].tag # "throw"
                     /\ c.log[2].tag = "throw"
                     /\ c.buffer = r.buffer]_vars

\* a frame has been returned, the next tryReadFrame has raised a FramingError,
\* more bytes have been appended since and the error is still raised
C36_Witness ==
    /\ Len(got) = 1
    /\ lastError # ""
    /\ lastResult = "none"
    /\ Fatal(buffer)
    /\ Len(buffer) > HEADER_SIZE
    /\ stream = << >>

\* C37: in every reachable state of a client a request timeout timer is
\* armed for exactly the request ids in the pending map, and for no request
\* that has been resolved, rejected or torn down.
C37_TimersMatchPending ==
    /\ timers = DOMAIN pending
    /\ \A id \in Ids : settle[id] # << >> => id \notin timers

\* request 1 has been resolved by its answer and request 2 is still pending:
\* the only timer armed is the one of request 2
C37_Witness ==
    /\ lastRead = << [tag |-> "resolve", rid |-> 1, flags |-> 0] >>
    /\ Len(settle[1]) = 1
    /\ DOMAIN pending = {2}
    /\ timers = {2}

\* ------------------------------------------------------------------------
\* YamsBlackboard.claimTask over the document store of registerAgent above.
\* A call is suspended at its awaits: the read (getTask), the write (store)
\* and triggerNotifications, which touches no task document.
\* ------------------------------------------------------------------------
MaxClaims == 3
TaskId == "t-1"
ClaimAgents == { "agent-a", "agent-b", "agent-c" }
\* the statuses the stored task starts with
InitialStatuses == { "pending", "working" }

\* `tasks/${taskId}.json`
TaskDoc(id) == << "tasks/", id, ".json" >>

\* the task createTask stored, in the given status; "" (0 for the time
\* claimed_at) stands for a member that is undefined, and the priority is
\* kept as its JSON text
StoredTask(status) ==
    [id |-> TaskId, title |-> "fix the build", type |-> "fix", priority |-> "2",
     status |-> status, created_by |-> "agent-a", assigned_to |-> "",
     claimed_at |-> 0]

\* JSON.stringify of a task: its defined members, in order
stringifyTask(task) ==
    << << "id", task.id >>, << "title", task.title >>, << "type", task.type >>,
       << "priority", task.priority >>, << "status", task.status >>,
       << "created_by", task.created_by >> >>
        \o (IF task.assigned_to # "" THEN << << "assigned_to", task.assigned_to >> >>
            ELSE << >>)
        \o (IF task.claimed_at # 0 THEN << << "claimed_at", task.claimed_at >> >>
            ELSE << >>)

\* JSON.parse of a task document: a member the text lacks is undefined
parseTask(content) ==
    LET object == parse(content)
        member(key) == IF key \in DOMAIN object THEN object[key] ELSE ""
    IN  [id |-> member("id"), title |-> member("title"), type |-> member("type"),
         priority |-> member("priority"), status |-> member("status"),
         created_by |-> member("created_by"), assigned_to |-> member("assigned_to"),
         claimed_at |-> IF "claimed_at" \in DOMAIN object THEN object["claimed_at"]
                        ELSE 0]

\* getTask: the parsed document, or null (<< >>) when cat throws
getTask(store, id) ==
    IF TaskDoc(id) \in DOMAIN store THEN << parseTask(store[TaskDoc(id)]) >> ELSE << >>

\* buildTaskTags
buildTaskTags(task) ==
    << "task", "inst", << "type:", task.type >>,
       << "status:", IF task.status = "" THEN "pending" ELSE task.status >>,
       << "priority:", task.priority >>, << "creator:", task.created_by >> >>
        \o (IF task.assigned_to # "" THEN << << "assignee:", task.assigned_to >> >>
            ELSE << >>)

\* the task as claimTask changes it before it stores it
claimed(task, agentId, now) ==
    [task EXCEPT !.status = "claimed", !.assigned_to = agentId, !.claimed_at = now]

TaskInit ==
    /\ Fresh
    /\ autoReconnect
    /\ NoReader
    /\ NoWrapper
    /\ NoPath
    /\ NoExtension
    /\ socks = [s \in Sockets |-> "unused"]
    /\ maxReconnectAttempts = Infinity
    /\ reconnectMaxMs = ReconnectMaxMs
    /\ docs \in { [name \in {} |-> << >>] }
                  \cup { [name \in {TaskDoc(TaskId)} |-> stringifyTask(StoredTask(status))] :
                           status \in InitialStatuses }
    /\ addCalls = << >>
    /\ regs = << >>
    /\ clock = 0
    /\ claims = << >>

\* what a step of claimTask leaves alone
TaskFrame ==
    UNCHANGED << connVars, socks, clientVars, lastRead, notified, lastDelay,
                 disconnectCalled, readerVars, wrapperVars, pathVars, regs,
                 extVars, bufferFrom >>

\* claimTask(taskId, agentId) is called: it awaits getTask
ClaimTask(agentId) ==
    /\ Len(claims) < MaxClaims
    /\ claims' = Append(claims, [agent |-> agentId, pc |-> "get", task |-> << >>,
                                 result |-> << >>])
    /\ TaskFrame
    /\ UNCHANGED << docs, addCalls, clock >>

\* the read returns: the call returns null, or changes the task and calls store()
GetReturns(i) ==
    /\ i \in DOMAIN claims
    /\ claims[i].pc = "get"
    /\ \E read \in {getTask(docs, TaskId)} :
           IF read = << >> \/ read[1].status # "pending"
           THEN /\ claims' = [claims EXCEPT ![i].pc = "done"]
                /\ UNCHANGED << addCalls, clock >>
           ELSE \E task \in {claimed(read[1], claims[i].agent, clock + 1)} :
                /\ clock' = clock + 1
                /\ claims' = [claims EXCEPT ![i].pc = "store", ![i].task = << task >>]
                /\ addCalls' = Append(addCalls,
                                      [content |-> stringifyTask(task),
                                       name |-> TaskDoc(TaskId),
                                       tags |-> buildTaskTags(task)])
    /\ TaskFrame
    /\ UNCHANGED docs

\* the write is done and answered: the call awaits triggerNotifications
StoreReturns(i) ==
    /\ i \in DOMAIN claims
    /\ claims[i].pc = "store"
    /\ docs' = MapSet(docs, TaskDoc(TaskId), stringifyTask(claims[i].task[1]))
    /\ claims' = [claims EXCEPT ![i].pc = "notify"]
    /\ TaskFrame
    /\ UNCHANGED << addCalls, clock >>

\* triggerNotifications returns: the call returns the task it stored
NotifyReturns(i) ==
    /\ i \in DOMAIN claims
    /\ claims[i].pc = "notify"
    /\ claims' = [claims EXCEPT ![i].pc = "done", ![i].result = claims[i].task]
    /\ TaskFrame
    /\ UNCHANGED << docs, addCalls, clock >>

TaskNext ==
    \/ \E agentId \in ClaimAgents : ClaimTask(agentId)
    \/ \E i \in 1..MaxClaims : GetReturns(i)
    \/ \E i \in 1..MaxClaims : StoreReturns(i)
    \/ \E i \in 1..MaxClaims : NotifyReturns(i)

TaskSpec == TaskInit /\ [][TaskNext]_vars

\* the claimTask calls that have returned the claimed task
Winners == {i \in DOMAIN claims : claims[i].pc = "done" /\ claims[i].result # << >>}

\* C39: claimTask is mutually exclusive: for one task at most one call
\* returns the claimed task, every other call returns null, and the stored
\* assigned_to is the agent whose call succeeded.
C39_ClaimExclusive ==
    /\ Cardinality(Winners) <= 1
    /\ \A i \in Winners :
          getTask(docs, TaskId)[1].assigned_to = claims[i].agent

====
